---------------------------- MODULE Spec2Model ----------------------------
(***************************************************************************)
(* Model of the splat-boston paint server: the Redis chunk store and its   *)
(* Lua paint script (internal/redis), the HTTP handlers GET /state/chunk   *)
(* and POST /paint (internal/api), the speed limiter (internal/rate) and   *)
(* the WebSocket hub with its rooms, outboxes and pumps (internal/ws).     *)
(***************************************************************************)
EXTENDS Integers, Sequences, FiniteSets, TLC

(***************************************************************************)
(* Bounds of the model.                                                    *)
(***************************************************************************)
MaxReq == 3        \* POST /paint requests and direct Publish calls started in one run
MaxPaints == 3     \* direct PaintTile calls started in one run
MaxTime == 1       \* the wall clock runs from 0 to MaxTime seconds
OutboxCap == 1     \* capacity of a connection's send channel (256 in RegisterConn)
RateLimit == 2     \* requests a RateLimiter grants per window (NewRateLimiter's limit)
RateWindow == 1    \* seconds of its window
IdleStep == 20     \* seconds the clock of the read deadlines advances in one step

(***************************************************************************)
(* Program constants.                                                      *)
(***************************************************************************)
ChunkLen == 32768          \* bytes of a chunk buffer
LastByte == 32767          \* index the paint script pads an absent chunk to
MaxOffset == 65535         \* last cell of a chunk
IdleTimeout == 60          \* seconds of ReadPump's read deadline
MaxColor == 15             \* largest colour PostPaint lets through
U16 == 65536               \* uint16(req.O) wraps modulo 2^16
SpeedMaxKmh == 150         \* default SPEED_MAX_KMH
PaintCooldownMs == 5000    \* default PAINT_COOLDOWN_MS
GeofenceRadiusM == 300     \* default GEOFENCE_RADIUS_M
MetersPerDegE3 == 111195   \* metres per 1000 microdegrees... see Haversine

(***************************************************************************)
(* The inputs of the model.                                                *)
(***************************************************************************)
Handlers == {"h1", "h2"}
Readers == {"r1"}
Conns == {"c1", "c2"}
IPs == {"ip1"}              \* the client address of the POST /paint requests
Clients == {"ip1", "ip2"}   \* the addresses the limiters are asked about
Chunks == {<<0, 0>>, <<1, 0>>}
Offsets == {0, 1, MaxOffset}
Colors == {3, 5}

NoVal == "none"          \* no connection
NoKey == <<>>            \* no chunk; the room key "" of a Conn made without roomID

Min(a, b) == IF a < b THEN a ELSE b
Max(a, b) == IF a > b THEN a ELSE b

(***************************************************************************)
(* Bit operations of the Lua `bit` library, on naturals.                   *)
(***************************************************************************)
RECURSIVE BitOr(_, _)
BitOr(a, b) ==
    IF a = 0 THEN b
    ELSE IF b = 0 THEN a
    ELSE Max(a % 2, b % 2) + 2 * BitOr(a \div 2, b \div 2)

RECURSIVE BitAnd(_, _)
BitAnd(a, b) ==
    IF a = 0 \/ b = 0 THEN 0
    ELSE Min(a % 2, b % 2) + 2 * BitAnd(a \div 2, b \div 2)

RShift4(b) == b \div 16
LShift4(c) == c * 16

(***************************************************************************)
(* A Redis string value.  Only the bytes the modelled offsets can address  *)
(* are tracked; every other byte of the value is never written and reads  *)
(* as 0.  An absent key is the empty string, as for GETRANGE and SETRANGE. *)
(***************************************************************************)
ByteIdx(o) == (o * 4) \div 8
NibbleIsHigh(o) == (o % 2) = 0

AllOffsets == Offsets \cup {-1, MaxOffset + 1}
TrackedIdx == {ByteIdx(o) : o \in AllOffsets \ {-1}} \cup {LastByte}

EmptyStr == [len |-> 0, b |-> [i \in TrackedIdx |-> 0]]

\* GETRANGE key idx idx: the one byte at idx (a negative idx counts from the
\* end), or the empty string when idx lies outside the value.
GetRange1(s, idx) ==
    LET st0 == IF idx < 0 THEN s.len + idx ELSE idx
        st  == IF st0 < 0 THEN 0 ELSE st0
        en  == IF st >= s.len THEN s.len - 1 ELSE st
    IN  IF s.len = 0 \/ st > en THEN <<>> ELSE <<s.b[st]>>

\* SETRANGE key off byte: pads with zero bytes up to off, then writes one byte.
SetRangeOk(off) == off >= 0
SetRange(s, off, byte) ==
    [len |-> Max(s.len, off + 1), b |-> [s.b EXCEPT ![off] = byte]]

\* GETRANGE key 0 32767, as GetChunkBits issues it.
GetChunkBitsShort(s) ==
    LET n == Min(s.len, LastByte)
    IN  [len |-> n, b |-> [i \in TrackedIdx |-> IF i < n THEN s.b[i] ELSE 0]]
GetChunkBits(s) ==
    LET n == Min(s.len, LastByte + 1)
    IN  [len |-> n, b |-> [i \in TrackedIdx |-> IF i < n THEN s.b[i] ELSE 0]]

(***************************************************************************)
(* paintScript: one EVAL, executed by Redis without interleaving.          *)
(* Returns the new value of the two keys, the reply {seq, now, prev} and   *)
(* whether the script raised an error (the keys keep what was written      *)
(* before the error).                                                      *)
(***************************************************************************)
\* INCR KEYS[2]
IncrSeqSkips(n) == n + 2
IncrSeq(n) == n + 1

\* local byteIdx = math.floor((o * 4) / 8)
LuaByteIdx(o) == (o * 4) \div 8

\* local nibbleIsHigh = (o % 2) == 0
LuaNibbleIsHigh(o) == (o % 2) = 0

\* the byte after the nibble of cell o is replaced by color
LuaSetNibbleClearsByte(b, o, color) ==
    IF LuaNibbleIsHigh(o) THEN LShift4(color) ELSE color
LuaSetNibble(b, o, color) ==
    IF LuaNibbleIsHigh(o) THEN BitOr(BitAnd(b, 15), LShift4(color))
                          ELSE BitOr(BitAnd(b, 240), color)

PaintScript(s0, q0, o, color, nowTs) ==
    LET byteIdx == LuaByteIdx(o)
        cur     == GetRange1(s0, byteIdx)
        absent  == cur = <<>>
        s1      == IF absent THEN SetRange(s0, LastByte, 0) ELSE s0
        b       == IF absent THEN 0 ELSE cur[1]
        prev    == IF LuaNibbleIsHigh(o) THEN RShift4(BitAnd(b, 240))
                                         ELSE BitAnd(b, 15)
        nb      == LuaSetNibble(b, o, color)
    IN  IF nb > 255 \/ ~SetRangeOk(byteIdx)
        THEN [bits |-> s1, seq |-> q0, err |-> TRUE,
              ret |-> [seq |-> 0, ts |-> 0, prev |-> 0]]
        ELSE [bits |-> SetRange(s1, byteIdx, nb), seq |-> IncrSeq(q0), err |-> FALSE,
              ret |-> [seq |-> IncrSeq(q0), ts |-> nowTs, prev |-> prev]]

(***************************************************************************)
(* The chunk as GET /state/chunk serves it: exactly ChunkLen bytes, an     *)
(* absent or short value padded with zero bytes.                           *)
(***************************************************************************)
PadChunkAsIs(data) == data
PadChunk(data) ==
    [len |-> IF data.len < ChunkLen THEN ChunkLen ELSE data.len, b |-> data.b]

ChunkBody(s) == PadChunk(GetChunkBits(s))

\* bits.GetNibble on a served body
GetNibble(data, o) ==
    IF o < 0 \/ ByteIdx(o) >= data.len THEN 0
    ELSE IF NibbleIsHigh(o) THEN RShift4(BitAnd(data.b[ByteIdx(o)], 240))
    ELSE BitAnd(data.b[ByteIdx(o)], 15)

\* the byte of the cell is replaced, not merged
SetNibbleClobbers(data, o, color) ==
    IF o < 0 \/ ByteIdx(o) >= data.len THEN [buf |-> data, prev |-> 0]
    ELSE [buf |-> [data EXCEPT !.b[ByteIdx(o)] =
                      IF NibbleIsHigh(o) THEN LShift4(color) % 256 ELSE color],
          prev |-> GetNibble(data, o)]

\* bits.SetNibble: the buffer after the call and the value returned.  color is
\* a uint8, so color << 4 keeps its low eight bits.
SetNibble(data, o, color) ==
    IF o < 0 \/ ByteIdx(o) >= data.len THEN [buf |-> data, prev |-> 0]
    ELSE LET b == data.b[ByteIdx(o)] IN
         IF NibbleIsHigh(o)
             THEN [buf |-> [data EXCEPT !.b[ByteIdx(o)] =
                                BitOr(BitAnd(b, 15), LShift4(color) % 256)],
                   prev |-> RShift4(BitAnd(b, 240))]
             ELSE [buf |-> [data EXCEPT !.b[ByteIdx(o)] = BitOr(BitAnd(b, 240), color)],
                   prev |-> BitAnd(b, 15)]

(***************************************************************************)
(* Positions, in microdegrees.  The points inside the Boston box share one *)
(* longitude, so their haversine distance is the meridian arc              *)
(* 6371000 * pi / 180 = 111194.93 m per degree.                            *)
(***************************************************************************)
Home == [lat |-> 42360100, lon |-> -71058900]
Close == [lat |-> 42360200, lon |-> -71058900]
Near == [lat |-> 42360500, lon |-> -71058900]
NYC == [lat |-> 40712800, lon |-> -74006000]
Points == {Home, Close, Near, NYC}

\* geo.LatLonToTileXY, tabulated for the points of the model
LatLonToTileXY(p) ==
    IF p = Home THEN <<1212726, 1482243>>
    ELSE IF p = Close THEN <<1212726, 1482241>>
    ELSE IF p = Near THEN <<1212726, 1482237>>
    ELSE <<1179919, 1506743>>

Abs(x) == IF x < 0 THEN -x ELSE x

\* rate.haversineDistance, in millimetres
HaversineMm(p, q) == (Abs(p.lat - q.lat) * MetersPerDegE3) \div 1000

\* speed <= maxSpeedMs, with speed = distance / timeDiff and
\* maxSpeedMs = maxSpeedKmh * 1000 / 3600
SpeedWithinLimitUnconverted(distMm, dt) == distMm <= SpeedMaxKmh * 1000 * dt
SpeedWithinLimit(distMm, dt) == distMm * 3600 <= SpeedMaxKmh * 1000 * 1000 * dt

\* the lat/lon box of PostPaint
InBostonBox(p) ==
    ~(p.lat < 42000000 \/ p.lat > 43000000 \/ p.lon < -72000000 \/ p.lon > -70000000)

\* geo.Mask.IsTileAllowed: inside the window and the tile's bit set
IsTileAllowed(m, xy) ==
    /\ ~(xy[1] < m.MinX \/ xy[1] > m.MaxX \/ xy[2] < m.MinY \/ xy[2] > m.MaxY)
    /\ xy \in m.allowed

\* a mask whose window holds Home and Near and allows only Home
NilMask ==
    [nil |-> TRUE, MinX |-> 0, MaxX |-> 0, MinY |-> 0, MaxY |-> 0, allowed |-> {}]
BostonMask ==
    [nil |-> FALSE, MinX |-> 1212720, MaxX |-> 1212730, MinY |-> 1482230, MaxY |-> 1482250,
     allowed |-> {<<1212726, 1482243>>}]

(***************************************************************************)
(* Requests.                                                               *)
(***************************************************************************)
Tokens == {"", "tok"}
\* TurnstileClient.Verify: resp.Success, !resp.Success, or an error (the request
\* failed, or it ran into the client's 10 s timeout)
VerifyOutcomes == {"success", "failure", "error", "timeout"}

\* The body of a POST /paint: whether it decodes as JSON, and its fields.
PaintBodies ==
    [json : BOOLEAN, token : Tokens, pos : Points, chunk : Chunks, o : AllOffsets,
     color : Colors \cup {MaxColor + 1}]

\* the key "%d:%d" of a room and the roomID of a connection
RoomKey(chunk) == <<chunk[1], chunk[2]>>
RoomKeys == {RoomKey(c) : c \in Chunks}

\* ws.Delta as PostPaint builds it
NoDelta == [seq |-> 0, o |-> 0, color |-> 0, ts |-> 0]
MakeDeltaNarrow(ret, o, color) ==
    [seq |-> ret.seq, o |-> o % 256, color |-> color, ts |-> ret.ts]
MakeDelta(ret, o, color) ==
    [seq |-> ret.seq, o |-> o % U16, color |-> color, ts |-> ret.ts]

VARIABLES
    bits,           \* Redis key chunk:{cx}:{cy}:bits
    seq,            \* Redis key chunk:{cx}:{cy}:seq (absent = 0)
    now,            \* the wall clock, in seconds
    cfg,            \* Handler.config.EnableTurnstile and Handler.mask
    lastPositions,  \* SpeedLimiter.lastPositions
    cooldowns,      \* Limiter.cooldowns
    requests,       \* RateLimiter.requests: per IP, the times of the requests it keeps
    granted,        \* per IP, the times of all the calls Allow granted
    hpc,            \* where each POST /paint (or Publish) goroutine stands
    hreq,           \* its request
    hret,           \* what PaintTile returned to it
    pkey,           \* Publish: the room key
    pdelta,         \* Publish: the delta
    pstale,         \* Publish: the room it looked up was since deleted from the hub
    ptodo,          \* broadcast: connections the range loop has not yet produced
    pcur,           \* broadcast: the connection of the current iteration
    rpc,            \* where each GET /state/chunk goroutine stands
    rchunk,         \* its chunk
    rseq,           \* the seq it read
    rresp,          \* its response
    rooms,          \* Hub.rooms: the keys that have a room
    subs,           \* Room.subs of the room of each key
    hmu,            \* Hub.mu is write-locked (by Hub.Run)
    rmu,            \* Room.mu: the goroutines that read-hold it
    runpc,          \* where Hub.Run stands
    runconn,        \* the connection Hub.Run received
    cpc,            \* where each connection's owner stands
    croom,          \* Conn.roomID
    send,           \* Conn.send: the buffered deltas
    closed,         \* Conn.send is closed
    wpc,            \* where the connection's WritePump stands
    frames,         \* the frames WritePump wrote to the client
    idle,           \* per connection, the seconds since its read deadline was set
                    \* and since its last inbound frame
    hist,           \* per chunk, the PaintTile calls that changed the store, in order
    resp,           \* the response of every finished POST /paint
    pubs,           \* the Publish calls issued so far
    nreq,           \* requests started
    panics,         \* goroutines that panicked, with the reason
    fatal,          \* the runtime aborted the process
    buf,            \* the []byte a caller hands to bits.SetNibble and bits.GetNibble
    mask,           \* the geo.Mask a caller builds with NewMask and SetTile
    call            \* the last call of a function of bits or geo, and what it returned

storeVars == <<bits, seq>>
guardVars == <<cfg, lastPositions, cooldowns, requests, granted>>
paintVars == <<hpc, hreq, hret, pkey, pdelta, pstale, ptodo, pcur>>
readVars == <<rpc, rchunk, rseq, rresp>>
hubVars == <<rooms, subs, hmu, rmu, runpc, runconn>>
connVars == <<cpc, croom, send, closed, wpc, frames, idle>>
logVars == <<hist, resp, pubs, nreq, panics, fatal>>
libVars == <<buf, mask, call>>
vars == <<storeVars, now, guardVars, paintVars, readVars, hubVars, connVars, logVars,
          libVars>>

(***************************************************************************)
(* POST /paint (Handler.PostPaint).                                        *)
(***************************************************************************)
Respond(rid, status, reason, ret) ==
    resp' = [resp EXCEPT ![rid] = [status |-> status, reason |-> reason,
                                   seq |-> ret.seq, ts |-> ret.ts]]

NoRet == [seq |-> 0, ts |-> 0, prev |-> 0]
NoResp == [status |-> -1, reason |-> "", seq |-> 0, ts |-> 0]   \* not answered yet
NoReq == [rid |-> 0, ip |-> "", pos |-> Home, chunk |-> NoKey, o |-> 0, color |-> 0]
NoPos == [exists |-> FALSE, pos |-> Home, time |-> 0]
NoCool == [exists |-> FALSE, time |-> 0]
NoRead == [chunk |-> NoKey, status |-> 0, xseq |-> 0, body |-> EmptyStr]

\* The handler is back where it takes the next request.
HandlerIdle(h) ==
    /\ hpc' = [hpc EXCEPT ![h] = "idle"]
    /\ hreq' = [hreq EXCEPT ![h] = NoReq]
    /\ hret' = [hret EXCEPT ![h] = NoRet]

\* if h.config.EnableTurnstile { token == "" -> 401; err != nil || !resp.Success -> 401 }
TokenRejectedFailsOpen(enabled, token, verdict) ==
    enabled /\ (token = "" \/ verdict = "failure")
TokenRejected(enabled, token, verdict) ==
    enabled /\ (token = "" \/ verdict # "success")

\* Decode the body, verify the token when enabled, test the lat/lon box, for
\* one request and one outcome of the verifier.  None of these reads or writes
\* shared state.
PostPaintDecode(h, body, ip, verdict) ==
    /\ hpc[h] = "idle"
    /\ nreq < MaxReq
    /\ nreq' = nreq + 1
    /\ LET rid == nreq + 1 IN
        IF ~body.json
            THEN /\ Respond(rid, 400, "bad json", NoRet)
                 /\ UNCHANGED <<hpc, hreq>>
        ELSE IF TokenRejected(cfg.turnstile, body.token, verdict)
            THEN /\ Respond(rid, 401, "turnstile", NoRet)
                 /\ UNCHANGED <<hpc, hreq>>
        ELSE IF ~InBostonBox(body.pos)
            THEN /\ Respond(rid, 403, "geofence", NoRet)
                 /\ UNCHANGED <<hpc, hreq>>
        ELSE /\ hpc' = [hpc EXCEPT ![h] = "speed"]
             /\ hreq' = [hreq EXCEPT ![h] =
                            [rid |-> rid, ip |-> ip, pos |-> body.pos,
                             chunk |-> body.chunk, o |-> body.o, color |-> body.color]]
             /\ UNCHANGED resp
    /\ UNCHANGED <<libVars, storeVars, now, guardVars, hret, pkey, pdelta, pstale, ptodo, pcur,
                   readVars, hubVars, connVars, hist, pubs, panics, fatal>>

PostPaintAdmit(h, bodies) ==
    \E body \in bodies, ip \in IPs, verdict \in VerifyOutcomes :
        PostPaintDecode(h, body, ip, verdict)

\* SpeedLimiter.CheckSpeed, under its mutex: the new table and the verdict.
CheckSpeed(tab, ip, pos, t) ==
    IF ~tab[ip].exists
        THEN [tab |-> [tab EXCEPT ![ip] = [exists |-> TRUE, pos |-> pos, time |-> t]],
              ok |-> TRUE]
    ELSE IF t - tab[ip].time <= 0
        THEN [tab |-> tab, ok |-> TRUE]
    ELSE [tab |-> [tab EXCEPT ![ip] = [exists |-> TRUE, pos |-> pos, time |-> t]],
          ok  |-> SpeedWithinLimit(HaversineMm(tab[ip].pos, pos), t - tab[ip].time)]

\* CheckSpeed, then the mask and the colour range (both local to the handler).
PostPaintSpeed(h) ==
    /\ hpc[h] = "speed"
    /\ LET r == hreq[h]
           cs == CheckSpeed(lastPositions, r.ip, r.pos, now)
       IN  /\ lastPositions' = cs.tab
           /\ IF ~cs.ok
                  THEN Respond(r.rid, 403, "speed limit exceeded", NoRet) /\ HandlerIdle(h)
              ELSE IF ~cfg.mask.nil /\ ~IsTileAllowed(cfg.mask, LatLonToTileXY(r.pos))
                  THEN Respond(r.rid, 403, "outside mask", NoRet) /\ HandlerIdle(h)
              ELSE IF r.color > MaxColor
                  THEN Respond(r.rid, 400, "invalid color", NoRet) /\ HandlerIdle(h)
              ELSE /\ hpc' = [hpc EXCEPT ![h] = "paint"]
                   /\ UNCHANGED <<hreq, hret, resp>>
    /\ UNCHANGED <<libVars, storeVars, now, cfg, cooldowns, requests, granted, pkey, pdelta, pstale, ptodo, pcur,
                   readVars, hubVars, connVars, hist, pubs, nreq, panics, fatal>>

\* Client.PaintTile: the script runs in Redis as one step, or the call fails
\* before Redis ran it.
PaintTileLosesReply(s0, q0, o, color, t, down) ==
    [PaintScript(s0, q0, o, color, t) EXCEPT !.err = @ \/ down]
PaintTile(s0, q0, o, color, t, down) ==
    IF down THEN [bits |-> s0, seq |-> q0, err |-> TRUE, ret |-> NoRet]
    ELSE PaintScript(s0, q0, o, color, t)

\* What a PaintTile call did to Redis; hist records the calls that changed what
\* a read of the chunk returns (its body or its seq).
ApplyPaint(r, pt) ==
    /\ bits' = [bits EXCEPT ![r.chunk] = pt.bits]
    /\ seq' = [seq EXCEPT ![r.chunk] = pt.seq]
    /\ hist' = IF ChunkBody(pt.bits) # ChunkBody(bits[r.chunk]) \/ pt.seq # seq[r.chunk]
               THEN [hist EXCEPT ![r.chunk] = Append(@,
                        [rid |-> r.rid, ip |-> r.ip, pos |-> r.pos, o |-> r.o, color |-> r.color,
                         ret |-> pt.ret, body |-> ChunkBody(pt.bits)])]
               ELSE hist

PostPaintStore(h, outages) ==
    /\ hpc[h] = "paint"
    /\ \E down \in outages :
        LET r == hreq[h]
            pt == PaintTile(bits[r.chunk], seq[r.chunk], r.o, r.color, now, down)
        IN  /\ ApplyPaint(r, pt)
            /\ IF pt.err
                  THEN /\ Respond(r.rid, 500, "redis", NoRet)
                       /\ HandlerIdle(h)
                       /\ UNCHANGED <<pkey, pdelta>>
                  ELSE /\ hpc' = [hpc EXCEPT ![h] = "publish"]
                       /\ hret' = [hret EXCEPT ![h] = pt.ret]
                       /\ pkey' = [pkey EXCEPT ![h] = RoomKey(r.chunk)]
                       /\ pdelta' = [pdelta EXCEPT ![h] = MakeDelta(pt.ret, r.o, r.color)]
                       /\ UNCHANGED <<hreq, resp>>
    /\ UNCHANGED <<libVars, now, guardVars, pstale, ptodo, pcur, readVars, hubVars, connVars,
                   pubs, nreq, panics, fatal>>

\* Client.PaintTile called directly by a goroutine (as the Redis tests do): the
\* call is in flight until Redis runs the script.
CallPaintTile(h, paints) ==
    /\ hpc[h] = "idle"
    /\ nreq < MaxPaints
    /\ nreq' = nreq + 1
    /\ \E p \in paints :
        hreq' = [hreq EXCEPT ![h] = [rid |-> nreq + 1, ip |-> "", pos |-> Home,
                                     chunk |-> p[1], o |-> p[2], color |-> p[3]]]
    /\ hpc' = [hpc EXCEPT ![h] = "tile"]
    /\ UNCHANGED <<libVars, storeVars, now, guardVars, hret, pkey, pdelta, pstale, ptodo, pcur,
                   readVars, hubVars, connVars, hist, resp, pubs, panics, fatal>>

PaintTileReturn(h) ==
    /\ hpc[h] = "tile"
    /\ LET r == hreq[h]
           pt == PaintTile(bits[r.chunk], seq[r.chunk], r.o, r.color, now, FALSE)
       IN  /\ ApplyPaint(r, pt)
           /\ Respond(r.rid, IF pt.err THEN 500 ELSE 200, "PaintTile", pt.ret)
           /\ HandlerIdle(h)
    /\ UNCHANGED <<libVars, now, guardVars, pkey, pdelta, pstale, ptodo, pcur, readVars, hubVars,
                   connVars, pubs, nreq, panics, fatal>>

\* Publish has returned: encode the 200 response.
PostPaintRespond(h) ==
    /\ hpc[h] = "respond"
    /\ Respond(hreq[h].rid, 200, "ok", hret[h])
    /\ HandlerIdle(h)
    /\ UNCHANGED <<libVars, storeVars, now, guardVars, pkey, pdelta, pstale, ptodo, pcur,
                   readVars, hubVars, connVars, hist, pubs, nreq, panics, fatal>>

(***************************************************************************)
(* GET /state/chunk (Handler.GetChunk): GetChunkSeq, then GetChunkBits.    *)
(***************************************************************************)
\* Each reader issues one request.
GetChunkReadSeq(r) ==
    /\ rpc[r] = "idle"
    /\ \E c \in Chunks :
        /\ rchunk' = [rchunk EXCEPT ![r] = c]
        /\ rseq' = [rseq EXCEPT ![r] = seq[c]]
    /\ rpc' = [rpc EXCEPT ![r] = "bits"]
    /\ UNCHANGED <<libVars, storeVars, now, guardVars, paintVars, rresp, hubVars, connVars,
                   logVars>>

GetChunkReadBits(r) ==
    /\ rpc[r] = "bits"
    /\ rresp' = [rresp EXCEPT ![r] =
                    [chunk |-> rchunk[r], status |-> 200, xseq |-> rseq[r],
                     body |-> ChunkBody(bits[rchunk[r]])]]
    /\ rpc' = [rpc EXCEPT ![r] = "done"]
    /\ UNCHANGED <<libVars, storeVars, now, guardVars, paintVars, rchunk, rseq, hubVars, connVars,
                   logVars>>

\* A Redis call of GetChunk fails with an error other than redis.Nil (the
\* server is unreachable, the connection was reset).  GetChunkSeq: 500.
\* GetChunkBits: `err == redis.Nil || len(buf) == 0` is tested before
\* `err != nil`, so a failure that comes with no bytes is served as a blank
\* chunk with the seq read before, and one that comes with bytes is a 500.
GetChunkOutage(r) ==
    /\ \/ /\ rpc[r] = "idle"
          /\ \E c \in Chunks :
                /\ rchunk' = [rchunk EXCEPT ![r] = c]
                /\ rresp' = [rresp EXCEPT ![r] = [NoRead EXCEPT !.chunk = c, !.status = 500]]
          /\ UNCHANGED rseq
       \/ /\ rpc[r] = "bits"
          /\ \E empty \in BOOLEAN :
                rresp' = [rresp EXCEPT ![r] =
                    IF empty
                        THEN [chunk |-> rchunk[r], status |-> 200, xseq |-> rseq[r],
                              body |-> PadChunk(EmptyStr)]
                        ELSE [NoRead EXCEPT !.chunk = rchunk[r], !.status = 500]]
          /\ UNCHANGED <<rchunk, rseq>>
    /\ rpc' = [rpc EXCEPT ![r] = "done"]
    /\ UNCHANGED <<libVars, storeVars, now, guardVars, paintVars, hubVars, connVars, logVars>>

(***************************************************************************)
(* The cooldown limiter (rate.Limiter).  PostPaint's calls to it are        *)
(* commented out; its callers are goroutines that use it the way those     *)
(* lines and TestCombinedLimiters do: CheckCooldown, and SetCooldown once   *)
(* the request went through.                                               *)
(***************************************************************************)
\* a CheckCooldown that leaves the expired entry in the table
CheckCooldownKeepsEntry(tab, ip, durationMs, t) ==
    [tab |-> tab,
     hot |-> tab[ip].exists /\ ~(t * 1000 > tab[ip].time * 1000 + durationMs)]

\* Limiter.CheckCooldown, under l.mu: the new table and whether the ip is
\* still in cooldown; times are instants in seconds, the duration is in ms.
CheckCooldown(tab, ip, durationMs, t) ==
    IF ~tab[ip].exists
        THEN [tab |-> tab, hot |-> FALSE]
    ELSE IF t * 1000 > tab[ip].time * 1000 + durationMs
        THEN [tab |-> [tab EXCEPT ![ip] = NoCool], hot |-> FALSE]
    ELSE [tab |-> tab, hot |-> TRUE]

\* Limiter.SetCooldown, under l.mu
SetCooldown(tab, ip, t) == [tab EXCEPT ![ip] = [exists |-> TRUE, time |-> t]]

\* A goroutine takes a request of ip and calls CheckCooldown.
LimiterCheck(h, ips, durations) ==
    /\ hpc[h] = "idle"
    /\ nreq < MaxReq
    /\ nreq' = nreq + 1
    /\ \E ip \in ips, d \in durations :
        LET cc == CheckCooldown(cooldowns, ip, d, now) IN
        /\ cooldowns' = cc.tab
        /\ IF cc.hot
              THEN /\ Respond(nreq + 1, 429, "cooldown", NoRet)
                   /\ UNCHANGED <<hpc, hreq>>
              ELSE /\ hpc' = [hpc EXCEPT ![h] = "setcooldown"]
                   /\ hreq' = [hreq EXCEPT ![h] = [NoReq EXCEPT !.rid = nreq + 1, !.ip = ip]]
                   /\ UNCHANGED resp
    /\ UNCHANGED <<libVars, storeVars, now, cfg, lastPositions, requests, granted, hret, pkey, pdelta, pstale, ptodo,
                   pcur, readVars, hubVars, connVars, hist, pubs, panics, fatal>>

\* The request went through: the goroutine calls SetCooldown.
LimiterSet(h) ==
    /\ hpc[h] = "setcooldown"
    /\ cooldowns' = SetCooldown(cooldowns, hreq[h].ip, now)
    /\ Respond(hreq[h].rid, 200, "ok", NoRet)
    /\ HandlerIdle(h)
    /\ UNCHANGED <<libVars, storeVars, now, cfg, lastPositions, requests, granted, pkey, pdelta, pstale, ptodo,
                   pcur, readVars, hubVars, connVars, hist, pubs, nreq, panics, fatal>>

\* the wall clock advances
Tick ==
    /\ now < MaxTime
    /\ now' = now + 1
    /\ UNCHANGED <<libVars, storeVars, guardVars, paintVars, readVars, hubVars, connVars, logVars>>

(***************************************************************************)
(* Hub.Publish and Room.broadcast, run by the goroutine that called them.  *)
(* A room object that Hub.Run deleted from Hub.rooms is empty and stays    *)
(* empty (only Hub.Run adds subscribers, and only to rooms of the map), so *)
(* a goroutine still holding such a room is marked stale and finds no      *)
(* subscribers in it.                                                      *)
(***************************************************************************)
PubRid(h) == hreq[h].rid

\* Publish returned to its caller: PostPaint goes on to its response, a direct
\* caller is done.
PublishReturn(h) ==
    IF hreq[h].rid = 0
        THEN hpc' = [hpc EXCEPT ![h] = "idle"]
        ELSE hpc' = [hpc EXCEPT ![h] = "respond"]

\* h.mu.RLock(); room, exists := h.rooms[key]; h.mu.RUnlock()
PublishLookup(h) ==
    /\ hpc[h] = "publish"
    /\ ~hmu
    /\ pubs' = pubs \cup {[rid |-> PubRid(h), key |-> pkey[h], delta |-> pdelta[h]]}
    /\ pstale' = [pstale EXCEPT ![h] = FALSE]
    /\ IF pkey[h] \in rooms
          THEN hpc' = [hpc EXCEPT ![h] = "rlock"]
          ELSE PublishReturn(h)
    /\ UNCHANGED <<libVars, storeVars, now, guardVars, hreq, hret, pkey, pdelta, ptodo, pcur,
                   readVars, hubVars, connVars, hist, resp, nreq, panics, fatal>>

\* r.subs of every room of the hub
SubsOfAllRooms(h) == UNION {subs[k] : k \in DOMAIN subs}
\* r.subs of the room this goroutine holds
RoomSubs(h) == IF pstale[h] THEN {} ELSE subs[pkey[h]]

\* r.mu.RLock(); the range loop starts over the subscribers of the room.
BroadcastRLock(h) ==
    /\ hpc[h] = "rlock"
    /\ hpc' = [hpc EXCEPT ![h] = "range"]
    /\ ptodo' = [ptodo EXCEPT ![h] = RoomSubs(h)]
    /\ rmu' = IF pstale[h] THEN rmu ELSE [rmu EXCEPT ![pkey[h]] = @ \cup {h}]
    /\ UNCHANGED <<libVars, storeVars, now, guardVars, hreq, hret, pkey, pdelta, pstale, pcur,
                   readVars, rooms, subs, hmu, runpc, runconn, connVars, logVars>>

\* A goroutine in a panic runs its deferred r.mu.RUnlock() and dies; the HTTP
\* server recovers the panic of a handler and sends no response.
Panic(h, reason) ==
    /\ panics' = panics \cup {<<h, reason>>}
    /\ rmu' = [k \in DOMAIN rmu |-> rmu[k] \ {h}]
    /\ ptodo' = [ptodo EXCEPT ![h] = {}]
    /\ pcur' = [pcur EXCEPT ![h] = NoVal]
    /\ IF hreq[h].rid = 0
          THEN UNCHANGED resp
          ELSE Respond(hreq[h].rid, 0, "panic", NoRet)
    /\ HandlerIdle(h)

\* select { case conn.send <- delta: default: ... } on a channel: what a send
\* that does not block does to the channel.
TrySendGrows(q, isClosed, cap, delta) ==
    IF isClosed THEN [q |-> q, res |-> "panic"] ELSE [q |-> Append(q, delta), res |-> "sent"]
TrySend(q, isClosed, cap, delta) ==
    IF isClosed THEN [q |-> q, res |-> "panic"]
    ELSE IF Len(q) < cap THEN [q |-> Append(q, delta), res |-> "sent"]
    ELSE [q |-> q, res |-> "full"]

\* One iteration of `for conn := range r.subs`.  A connection that another
\* goroutine deleted from the map while this one iterates (both hold only the
\* read lock) may or may not still be produced.
BroadcastNext(h) ==
    /\ hpc[h] = "range"
    /\ \E c \in ptodo[h], produced \in BOOLEAN :
        /\ c \in RoomSubs(h) => produced
        /\ IF ~produced
              THEN /\ ptodo' = [ptodo EXCEPT ![h] = @ \ {c}]
                   /\ UNCHANGED <<hpc, hreq, hret, pcur, rmu, send, resp, panics>>
           ELSE LET ts == TrySend(send[c], closed[c], OutboxCap, pdelta[h]) IN
              IF ts.res = "panic"
                  THEN Panic(h, "send on closed channel") /\ UNCHANGED send
              ELSE IF ts.res = "sent"
                  THEN /\ send' = [send EXCEPT ![c] = ts.q]
                       /\ ptodo' = [ptodo EXCEPT ![h] = @ \ {c}]
                       /\ UNCHANGED <<hpc, hreq, hret, pcur, rmu, resp, panics>>
              ELSE /\ hpc' = [hpc EXCEPT ![h] = "close"]
                   /\ pcur' = [pcur EXCEPT ![h] = c]
                   /\ ptodo' = [ptodo EXCEPT ![h] = @ \ {c}]
                   /\ UNCHANGED <<hreq, hret, rmu, send, resp, panics>>
    /\ UNCHANGED <<libVars, storeVars, now, guardVars, pkey, pdelta, pstale, readVars,
                   rooms, subs, hmu, runpc, runconn, cpc, croom, closed, wpc, frames, idle,
                   hist, pubs, nreq, fatal>>

\* close(conn.send)
BroadcastClose(h) ==
    /\ hpc[h] = "close"
    /\ IF closed[pcur[h]]
          THEN /\ Panic(h, "close of closed channel")
               /\ UNCHANGED closed
          ELSE /\ closed' = [closed EXCEPT ![pcur[h]] = TRUE]
               /\ hpc' = [hpc EXCEPT ![h] = "delete"]
               /\ UNCHANGED <<hreq, hret, pcur, ptodo, rmu, resp, panics>>
    /\ UNCHANGED <<libVars, storeVars, now, guardVars, pkey, pdelta, pstale, readVars,
                   rooms, subs, hmu, runpc, runconn, cpc, croom, send, wpc, frames, idle,
                   hist, pubs, nreq, fatal>>

\* The goroutines other than h inside the read section of h's room.
OtherReaders(h) == IF pstale[h] THEN {} ELSE rmu[pkey[h]] \ {h}

\* delete(r.subs, conn), holding only the read lock: a map write that races
\* with every other goroutine inside the read section; the runtime may detect
\* it and abort the process, which ends every goroutine.
BroadcastDelete(h) ==
    /\ hpc[h] = "delete"
    /\ subs' = IF pstale[h] THEN subs ELSE [subs EXCEPT ![pkey[h]] = @ \ {pcur[h]}]
    /\ pcur' = [pcur EXCEPT ![h] = NoVal]
    /\ \E detected \in BOOLEAN :
        /\ detected => OtherReaders(h) # {}
        /\ fatal' = detected
        /\ IF detected
              THEN /\ hpc' = [g \in Handlers |-> "dead"]
                   /\ rpc' = [r \in Readers |-> "dead"]
                   /\ runpc' = "dead"
                   /\ cpc' = [c \in Conns |-> "dead"]
                   /\ wpc' = [c \in Conns |-> "dead"]
              ELSE /\ hpc' = [hpc EXCEPT ![h] = "range"]
                   /\ UNCHANGED <<rpc, runpc, cpc, wpc>>
    /\ UNCHANGED <<libVars, storeVars, now, guardVars, hreq, hret, pkey, pdelta, pstale, ptodo,
                   rchunk, rseq, rresp, rooms, hmu, rmu, runconn, croom, send, closed,
                   frames, idle, hist, resp, pubs, nreq, panics>>

\* The loop is over: the deferred r.mu.RUnlock(), and Publish returns.
BroadcastRUnlock(h) ==
    /\ hpc[h] = "range"
    /\ ptodo[h] = {}
    /\ rmu' = [k \in DOMAIN rmu |-> rmu[k] \ {h}]
    /\ PublishReturn(h)
    /\ UNCHANGED <<libVars, storeVars, now, guardVars, hreq, hret, pkey, pdelta, pstale, ptodo, pcur,
                   readVars, rooms, subs, hmu, runpc, runconn, connVars, logVars>>

\* Hub.Publish called directly (as the hub's tests and benchmarks do), not by
\* PostPaint.
CallPublish(h, keys) ==
    /\ hpc[h] = "idle"
    /\ nreq < MaxReq
    /\ nreq' = nreq + 1
    /\ \E key \in keys :
        /\ pkey' = [pkey EXCEPT ![h] = key]
        /\ pdelta' = [pdelta EXCEPT ![h] =
                         [seq |-> nreq + 1, o |-> 42, color |-> 4, ts |-> now]]
    /\ hpc' = [hpc EXCEPT ![h] = "publish"]
    /\ UNCHANGED <<libVars, storeVars, now, guardVars, hreq, hret, pstale, ptodo, pcur,
                   readVars, hubVars, connVars, hist, resp, pubs, panics, fatal>>

(***************************************************************************)
(* Hub.Run: one goroutine serving the register and unregister channels.    *)
(* Its receives are part of RegisterConn and ReadPumpExit below.           *)
(***************************************************************************)
\* room.addSubscriber(conn): needs the room's write lock
RunAddSubscriber ==
    /\ runpc = "add"
    /\ rmu[croom[runconn]] = {}
    /\ subs' = [subs EXCEPT ![croom[runconn]] = @ \cup {runconn}]
    /\ runpc' = "select"
    /\ runconn' = NoVal
    /\ UNCHANGED <<libVars, storeVars, now, guardVars, paintVars, readVars, rooms, hmu, rmu,
                   connVars, logVars>>

\* room.removeSubscriber(conn): needs the room's write lock
RunRemoveSubscriber ==
    /\ runpc = "remove"
    /\ rmu[croom[runconn]] = {}
    /\ subs' = [subs EXCEPT ![croom[runconn]] = @ \ {runconn}]
    /\ runpc' = "len"
    /\ UNCHANGED <<libVars, storeVars, now, guardVars, paintVars, readVars, rooms, hmu, rmu, runconn,
                   connVars, logVars>>

\* if len(room.subs) == 0 { delete(h.rooms, roomKey) }: the rooms of the hub
\* after the unregister of a connection of room k that left the subscribers
\* `left` in it
RoomsAfterUnregisterKeeps(rs, k, left) == rs
RoomsAfterUnregisterDrops(rs, k, left) == rs \ {k}
RoomsAfterUnregister(rs, k, left) == IF left = {} THEN rs \ {k} ELSE rs

\* if len(room.subs) == 0 { delete(h.rooms, roomKey) }; h.mu.Unlock()
RunDeleteRoom ==
    /\ runpc = "len"
    /\ LET k == croom[runconn] IN
        IF k \notin RoomsAfterUnregister(rooms, k, subs[k])
            THEN /\ rooms' = RoomsAfterUnregister(rooms, k, subs[k])
                 /\ rmu' = [rmu EXCEPT ![k] = {}]
                 /\ pstale' = [h \in Handlers |->
                                  pstale[h] \/ (pkey[h] = k /\ hpc[h] \in
                                                {"rlock", "range", "close", "delete"})]
            ELSE UNCHANGED <<rooms, rmu, pstale>>
    /\ hmu' = FALSE
    /\ runpc' = "select"
    /\ runconn' = NoVal
    /\ UNCHANGED <<libVars, storeVars, now, guardVars, hpc, hreq, hret, pkey, pdelta, ptodo, pcur,
                   readVars, subs, connVars, logVars>>

(***************************************************************************)
(* A connection: HandleWebSocket, ReadPump and WritePump.                  *)
(***************************************************************************)
\* c.ws.SetReadDeadline(time.Now().Add(60 * time.Second)): the deadline is a
\* full timeout away; `quiet` counts the seconds since the last inbound frame
ReadDeadlineSet == [timer |-> 0, quiet |-> 0]

\* GET /sub?cx=&cy=: RegisterConn makes the Conn and sends it on h.register,
\* an unbuffered channel: the send and Hub.Run's receive are one joint step,
\* taken when Hub.Run is back at its select.  RegisterConn returns and
\* HandleWebSocket starts the two pumps; Hub.Run, under h.mu.Lock(), looks the
\* room up or creates it (nothing another goroutine does can tell the receive
\* from the lock that follows it).
RegisterConn(c, keys) ==
    /\ cpc[c] = "new"
    /\ runpc = "select"
    /\ \E key \in keys :
        /\ croom' = [croom EXCEPT ![c] = key]
        /\ rooms' = rooms \cup {key}
    /\ cpc' = [cpc EXCEPT ![c] = "open"]
    /\ wpc' = [wpc EXCEPT ![c] = "run"]
    /\ idle' = [idle EXCEPT ![c] = ReadDeadlineSet]
    /\ runconn' = c
    /\ runpc' = "add"
    /\ UNCHANGED <<libVars, storeVars, now, guardVars, paintVars, readVars, subs, hmu, rmu,
                   send, closed, frames, logVars>>

\* ReadPump leaves its loop (the client closed, the read timed out, or the
\* socket was closed by WritePump) and sends the Conn on h.unregister: again a
\* joint step with Hub.Run's receive, after which ReadPump closes the socket
\* and Hub.Run takes h.mu.Lock(); without a room for the key its branch ends
\* at once.
ReadPumpExit(c) ==
    /\ cpc[c] = "open"
    /\ runpc = "select"
    /\ cpc' = [cpc EXCEPT ![c] = "gone"]
    /\ IF croom[c] \in rooms
          THEN /\ hmu' = TRUE
               /\ runpc' = "remove"
               /\ runconn' = c
          ELSE UNCHANGED <<hmu, runpc, runconn>>
    /\ UNCHANGED <<libVars, storeVars, now, guardVars, paintVars, readVars, rooms, subs, rmu,
                   croom, send, closed, wpc, frames, idle, logVars>>

\* WritePump takes one delta from the outbox and writes it as a JSON frame.
WritePumpSend(c) ==
    /\ wpc[c] = "run"
    /\ send[c] # <<>>
    /\ frames' = [frames EXCEPT ![c] = Append(@, Head(send[c]))]
    /\ send' = [send EXCEPT ![c] = Tail(@)]
    /\ UNCHANGED <<libVars, storeVars, now, guardVars, paintVars, readVars, hubVars,
                   cpc, croom, closed, wpc, idle, logVars>>

\* a WritePump without the ping ticker: it returns on a closed outbox only
WritePumpExitOnClose(c) ==
    /\ wpc[c] = "run"
    /\ send[c] = <<>> /\ closed[c]
    /\ wpc' = [wpc EXCEPT ![c] = "done"]
    /\ UNCHANGED <<libVars, storeVars, now, guardVars, paintVars, readVars, hubVars,
                   cpc, croom, send, closed, frames, idle, logVars>>

\* WritePump finds the outbox closed and drained (it writes a close message),
\* or a write to the socket fails, at the latest the ping the 54 s ticker
\* asks for once ReadPump has closed the socket: it returns and closes the
\* socket.
WritePumpExit(c) ==
    /\ wpc[c] = "run"
    /\ \/ send[c] = <<>> /\ closed[c]
       \/ cpc[c] = "gone"
    /\ wpc' = [wpc EXCEPT ![c] = "done"]
    /\ UNCHANGED <<libVars, storeVars, now, guardVars, paintVars, readVars, hubVars,
                   cpc, croom, send, closed, frames, idle, logVars>>

(***************************************************************************)
(* The system.                                                             *)
(***************************************************************************)
Configs == [turnstile : BOOLEAN, mask : {NilMask, BostonMask}]

\* the server after main has built the store client, the hub and the handler
InitServer(configs) ==
    /\ bits = [c \in Chunks |-> EmptyStr]
    /\ seq = [c \in Chunks |-> 0]
    /\ now = 0
    /\ cfg \in configs
    /\ lastPositions = [ip \in Clients |-> NoPos]
    /\ cooldowns = [ip \in Clients |-> NoCool]
    /\ requests = [ip \in Clients |-> <<>>]
    /\ granted = [ip \in Clients |-> <<>>]
    /\ hpc = [h \in Handlers |-> "idle"]
    /\ hreq = [h \in Handlers |-> NoReq]
    /\ hret = [h \in Handlers |-> NoRet]
    /\ pkey = [h \in Handlers |-> NoKey]
    /\ pdelta = [h \in Handlers |-> NoDelta]
    /\ pstale = [h \in Handlers |-> FALSE]
    /\ ptodo = [h \in Handlers |-> {}]
    /\ pcur = [h \in Handlers |-> NoVal]
    /\ rpc = [r \in Readers |-> "idle"]
    /\ rchunk = [r \in Readers |-> NoKey]
    /\ rseq = [r \in Readers |-> 0]
    /\ rresp = [r \in Readers |-> NoRead]
    /\ rooms = {}
    /\ subs = [k \in RoomKeys \cup {NoKey} |-> {}]
    /\ hmu = FALSE
    /\ rmu = [k \in RoomKeys \cup {NoKey} |-> {}]
    /\ runpc = "select"
    /\ runconn = NoVal
    /\ cpc = [c \in Conns |-> "new"]
    /\ croom = [c \in Conns |-> NoKey]
    /\ send = [c \in Conns |-> <<>>]
    /\ closed = [c \in Conns |-> FALSE]
    /\ wpc = [c \in Conns |-> "off"]
    /\ frames = [c \in Conns |-> <<>>]
    /\ idle = [c \in Conns |-> ReadDeadlineSet]
    /\ hist = [c \in Chunks |-> <<>>]
    /\ resp = [i \in 1..Max(MaxReq, MaxPaints) |-> NoResp]
    /\ pubs = {}
    /\ nreq = 0
    /\ panics = {}
    /\ fatal = FALSE

\* no caller of the libraries other than the server
NoCall == [fn |-> "", args |-> <<>>, ret |-> <<>>]
NoBuf == [len |-> 0, b |-> <<>>]
NoMask == [MinX |-> 0, MaxX |-> 0, MinY |-> 0, MaxY |-> 0, data |-> NoBuf]

InitWith(configs) ==
    /\ InitServer(configs)
    /\ buf = NoBuf
    /\ mask = NoMask
    /\ call = NoCall

Init == InitWith(Configs)

PublishStep(h) ==
    \/ PublishLookup(h)
    \/ BroadcastRLock(h)
    \/ BroadcastNext(h)
    \/ BroadcastClose(h)
    \/ BroadcastDelete(h)
    \/ BroadcastRUnlock(h)

PostPaint(h, bodies, outages) ==
    \/ PostPaintAdmit(h, bodies)
    \/ PostPaintSpeed(h)
    \/ PostPaintStore(h, outages)
    \/ PostPaintRespond(h)

\* GET /state/chunk reading the bytes first and the seq after them
GetChunkBitsFirst(r) ==
    \/ /\ rpc[r] = "idle"
       /\ \E c \in Chunks :
            /\ rchunk' = [rchunk EXCEPT ![r] = c]
            /\ rresp' = [rresp EXCEPT ![r] =
                            [chunk |-> c, status |-> 0, xseq |-> 0,
                             body |-> ChunkBody(bits[c])]]
       /\ rpc' = [rpc EXCEPT ![r] = "bits"]
       /\ UNCHANGED <<libVars, storeVars, now, guardVars, paintVars, rseq, hubVars,
                      connVars, logVars>>
    \/ /\ rpc[r] = "bits"
       /\ rseq' = [rseq EXCEPT ![r] = seq[rchunk[r]]]
       /\ rresp' = [rresp EXCEPT ![r].status = 200, ![r].xseq = seq[rchunk[r]]]
       /\ rpc' = [rpc EXCEPT ![r] = "done"]
       /\ UNCHANGED <<libVars, storeVars, now, guardVars, paintVars, rchunk, hubVars,
                      connVars, logVars>>

GetChunk(r) ==
    \/ GetChunkReadSeq(r)
    \/ GetChunkReadBits(r)

HubRun ==
    \/ RunAddSubscriber
    \/ RunRemoveSubscriber
    \/ RunDeleteRoom

ConnStep(c, keys) ==
    \/ RegisterConn(c, keys)
    \/ ReadPumpExit(c)
    \/ WritePumpSend(c)
    \/ WritePumpExit(c)

\* The server: paints, reads and subscriptions.
Next ==
    \/ \E h \in Handlers : PostPaint(h, PaintBodies, BOOLEAN) \/ PublishStep(h)
    \/ \E r \in Readers : GetChunk(r) \/ GetChunkOutage(r)
    \/ HubRun
    \/ \E c \in Conns : ConnStep(c, RoomKeys)
    \/ Tick

Spec == Init /\ [][Next]_vars

(***************************************************************************)
(* The chunk store under concurrent PaintTile calls and GET /state/chunk.   *)
(***************************************************************************)
PlainConfig == [turnstile |-> FALSE, mask |-> NilMask]

\* (chunk, o, color): two cells of one byte, one of them in two colours, a
\* cell of another byte, a cell of another chunk
StorePaints ==
    {<<<<0, 0>>, 0, 3>>, <<<<0, 0>>, 0, 5>>, <<<<0, 0>>, 1, 3>>,
     <<<<0, 0>>, MaxOffset, 5>>, <<<<1, 0>>, 0, 5>>}

InitStore == InitWith({PlainConfig})

NextStore ==
    \/ \E h \in Handlers :
          \/ CallPaintTile(h, StorePaints)
          \/ PaintTileReturn(h)
    \/ \E r \in Readers : GetChunk(r)

SpecStore == InitStore /\ [][NextStore]_vars

(***************************************************************************)
(* The hub under concurrent Publish calls, subscribes and disconnects.     *)
(***************************************************************************)
\* c1 subscribes to chunk (0,0), c2 to (0,0) or to (1,0); h1 publishes to
\* (0,0), h2 to (0,0) or to (1,0); c1 stays connected, c2 may leave
HubKeys(c) == IF c \in {"c1", "h1"} THEN {<<0, 0>>} ELSE RoomKeys
HubLeavers == {"c2"}

NextHub ==
    \/ \E h \in Handlers : CallPublish(h, HubKeys(h)) \/ PublishStep(h)
    \/ HubRun
    \/ \E c \in Conns :
          \/ RegisterConn(c, HubKeys(c))
          \/ WritePumpSend(c)
    \/ \E c \in HubLeavers : ReadPumpExit(c)

SpecHub == InitStore /\ [][NextHub]_vars

(***************************************************************************)
(* POST /paint with requests that every rule can reject, every rule        *)
(* enabled, with no subscriber connected.                                  *)
(***************************************************************************)
GuardConfig == [turnstile |-> TRUE, mask |-> BostonMask]

InitGuard == InitWith({GuardConfig})

GoodBody ==
    [json |-> TRUE, token |-> "tok", pos |-> Home, chunk |-> <<0, 0>>,
     o |-> 0, color |-> 3]

\* the good request, and the requests that differ from it in one field
GuardBodies ==
    {GoodBody,
     [GoodBody EXCEPT !.json = FALSE],
     [GoodBody EXCEPT !.token = ""],
     [GoodBody EXCEPT !.pos = Near],
     [GoodBody EXCEPT !.pos = NYC],
     [GoodBody EXCEPT !.o = -1],
     [GoodBody EXCEPT !.color = MaxColor + 1]}

NextGuard ==
    \/ \E h \in Handlers : PostPaint(h, GuardBodies, BOOLEAN) \/ PublishLookup(h)
    \/ Tick

SpecGuard == InitGuard /\ [][NextGuard]_vars

(***************************************************************************)
(* Accepted paints of one chunk from concurrent POST /paint handlers, with *)
(* subscribers of that chunk that stay connected.                          *)
(***************************************************************************)
FanoutBodies == {GoodBody}

NextFanout ==
    \/ \E h \in Handlers : PostPaint(h, FanoutBodies, {FALSE}) \/ PublishStep(h)
    \/ RunAddSubscriber
    \/ \E c \in Conns : RegisterConn(c, {<<0, 0>>}) \/ WritePumpSend(c)

SpecFanout == InitStore /\ [][NextFanout]_vars

(***************************************************************************)
(* Accepted paints of the first, the last and the first out-of-range cell  *)
(* of a chunk, at different times, with no subscriber connected.           *)
(***************************************************************************)
\* h1 paints any of the three cells of chunk (0,0); h2 the last cell of that
\* chunk, or the first cell of chunk (1,0)
DeltaBodies(h) ==
    IF h = "h1"
        THEN {[GoodBody EXCEPT !.o = 0, !.color = 3],
              [GoodBody EXCEPT !.o = MaxOffset, !.color = 5],
              [GoodBody EXCEPT !.o = MaxOffset + 1, !.color = 3]}
        ELSE {[GoodBody EXCEPT !.o = MaxOffset, !.color = 5],
              [GoodBody EXCEPT !.chunk = <<1, 0>>, !.color = 5]}

NextDelta ==
    \/ \E h \in Handlers : PostPaint(h, DeltaBodies(h), {FALSE}) \/ PublishLookup(h)
    \/ Tick

SpecDelta == InitStore /\ [][NextDelta]_vars

(***************************************************************************)
(* The cooldown limiter used by concurrent goroutines for requests of two  *)
(* clients, with the durations of main.go and of the limiter's tests.      *)
(***************************************************************************)
LimiterDurations == {100, PaintCooldownMs}

NextLimiter ==
    \/ \E h \in Handlers : LimiterCheck(h, Clients, LimiterDurations) \/ LimiterSet(h)
    \/ Tick

SpecLimiter == InitStore /\ [][NextLimiter]_vars

(***************************************************************************)
(* POST /paint of one client that moves between three positions 11 m,      *)
(* 33 m and 44 m apart, with no mask and no token check.                   *)
(***************************************************************************)
\* h1 takes requests from any of the three positions, h2 from the farthest
SpeedBodies(h) ==
    IF h = "h1" THEN {[GoodBody EXCEPT !.pos = p] : p \in {Home, Close, Near}}
                ELSE {[GoodBody EXCEPT !.pos = Near]}

NextSpeed ==
    \/ \E h \in Handlers : PostPaint(h, SpeedBodies(h), {FALSE}) \/ PublishLookup(h)
    \/ Tick

SpecSpeed == InitStore /\ [][NextSpeed]_vars

(***************************************************************************)
(* POST /paint with the token check enabled: requests with and without a   *)
(* token, from inside the mask, outside the mask and outside the lat/lon   *)
(* box, and every outcome of the verifier.                                 *)
(***************************************************************************)
TokenBodies ==
    {[GoodBody EXCEPT !.token = t, !.pos = p] : t \in Tokens, p \in {Home, Near, NYC}}

NextToken ==
    \/ \E h \in Handlers : PostPaint(h, TokenBodies, {FALSE}) \/ PublishLookup(h)
    \/ Tick

SpecToken == InitGuard /\ [][NextToken]_vars

(***************************************************************************)
(* GET /state/chunk under concurrent PaintTile calls, with Redis calls of  *)
(* the read that may fail.                                                 *)
(***************************************************************************)
NextRead ==
    \/ \E h \in Handlers :
          \/ CallPaintTile(h, StorePaints)
          \/ PaintTileReturn(h)
    \/ \E r \in Readers : GetChunk(r) \/ GetChunkOutage(r)

SpecRead == InitStore /\ [][NextRead]_vars

(***************************************************************************)
(* The life of a room: concurrent Publish calls to one chunk, connections  *)
(* that subscribe to it, are torn down for a full outbox or leave, and the *)
(* pumps that follow a teardown up to the unregister.  Every goroutine     *)
(* that can take a step eventually takes it; when clients connect, leave   *)
(* or publish is up to them.                                               *)
(***************************************************************************)
LiveKeys == {<<0, 0>>}
\* the Publish calls come one after the other

\* ReadPump's ReadMessage fails because WritePump closed the socket.
ReadPumpClosed(c) == wpc[c] = "done" /\ ReadPumpExit(c)

NextLive ==
    \/ \E h \in {"h1"} : CallPublish(h, LiveKeys) \/ PublishStep(h)
    \/ HubRun
    \/ \E c \in Conns :
          \/ RegisterConn(c, LiveKeys)
          \/ WritePumpSend(c)
          \/ WritePumpExit(c)
          \/ ReadPumpClosed(c)
    \/ \E c \in HubLeavers : ReadPumpExit(c)

Fairness ==
    /\ WF_vars(HubRun)
    /\ \A h \in Handlers : WF_vars(PublishStep(h))
    /\ \A c \in Conns :
          /\ WF_vars(WritePumpSend(c))
          /\ WF_vars(WritePumpExit(c))
          /\ WF_vars(ReadPumpClosed(c))

SpecLive == InitStore /\ [][NextLive]_vars /\ Fairness

(***************************************************************************)
(* A client of the documented contract next to concurrent POST /paint      *)
(* requests: it GETs the snapshot of a chunk, then opens the subscription  *)
(* to that chunk, and applies the deltas it receives.                      *)
(***************************************************************************)
\* paints of the two cells of the first byte of chunk (0,0)

\* WS /sub, opened once the snapshot has arrived
ClientSubscribe(c, r) ==
    /\ rpc[r] = "done"
    /\ RegisterConn(c, {RoomKey(rchunk[r])})

\* handleDelta of the client: a delta whose seq is not above the last applied
\* seq is ignored, any other is written into the local copy of the chunk.
RECURSIVE ApplyDeltas(_, _)
ApplyDeltas(st, q) ==
    IF q = <<>> THEN st
    ELSE LET d == Head(q) IN
         ApplyDeltas(IF d.seq <= st.seq THEN st
                     ELSE [data |-> SetNibble(st.data, d.o, d.color).buf, seq |-> d.seq],
                     Tail(q))

\* the client's copy of the chunk: the snapshot and the frames received
ClientChunk(c, r) == ApplyDeltas([data |-> rresp[r].body, seq |-> rresp[r].xseq], frames[c])

NextClient ==
    \/ \E h \in Handlers : PostPaint(h, {GoodBody, [GoodBody EXCEPT !.o = 1, !.color = 5]}, {FALSE}) \/ PublishStep(h)
    \/ \E r \in Readers : GetChunk(r)
    \/ RunAddSubscriber
    \/ ClientSubscribe("c1", "r1")
    \/ WritePumpSend("c1")

SpecClient == InitStore /\ [][NextClient]_vars

(***************************************************************************)
(* The nibble codec (internal/bits) called the way its tests call it: on a *)
(* short byte slice, with offsets inside and outside the slice and with    *)
(* colours inside and outside 0..15.                                       *)
(***************************************************************************)
CodecLen == 2      \* bytes of the slice (make([]byte, 2) in the tests)

\* the slice zeroed, and filled with 0x53
CodecBufs == {[len |-> CodecLen, b |-> [i \in 0..(CodecLen - 1) |-> v]] : v \in {0, 83}}
\* the cells of the slice, the offset before them and the offset after them
CodecOffsets == (-1)..(2 * CodecLen)
\* a colour of the palette, and the first value above it

CallSetNibble(os, colors) ==
    /\ \E o \in os, color \in colors :
        LET r == SetNibble(buf, o, color) IN
        /\ buf' = r.buf
        /\ call' = [fn |-> "SetNibble", args |-> <<o, color>>, ret |-> <<r.prev>>]
    /\ UNCHANGED <<storeVars, now, guardVars, paintVars, readVars, hubVars, connVars,
                   logVars, mask>>

CallGetNibble(os) ==
    /\ \E o \in os :
        call' = [fn |-> "GetNibble", args |-> <<o>>, ret |-> <<GetNibble(buf, o)>>]
    /\ UNCHANGED <<storeVars, now, guardVars, paintVars, readVars, hubVars, connVars,
                   logVars, buf, mask>>

InitCodec ==
    /\ InitServer({PlainConfig})
    /\ buf \in CodecBufs
    /\ mask = NoMask
    /\ call = NoCall

NextCodec ==
    \/ CallSetNibble(CodecOffsets, {5, 16})
    \/ CallGetNibble(CodecOffsets)

SpecCodec == InitCodec /\ [][NextCodec]_vars

(***************************************************************************)
(* The projection of a tile onto its chunk and its offset in the chunk     *)
(* (geo.ChunkOf, geo.OffsetOf), on int64 tile coordinates.  The operators  *)
(* work on the two's complement bits as >> and & do; the coordinates of    *)
(* the model lie within 31 bits, which leaves the low 8 bits and the sign  *)
(* extension of a 64-bit value as they are.                                *)
(***************************************************************************)
Word == 1073741824      \* 2^30: a coordinate x of the model has -2^30 <= x < 2^30

\* the bits of x below bit 30, as a natural
LowBits(x) == IF x < 0 THEN x + Word ELSE x

\* x >> 8 on a signed integer: the arithmetic shift, ^((^x) >> 8) for x < 0
Sar8(x) == IF x >= 0 THEN x \div 256 ELSE -(((-x) - 1) \div 256) - 1

\* x / 256 in Go, the quotient truncated toward zero, in the place of x >> 8
ChunkOfTruncates(x, y) ==
    <<IF x >= 0 THEN x \div 256 ELSE -((-x) \div 256),
      IF y >= 0 THEN y \div 256 ELSE -((-y) \div 256)>>
ChunkOf(x, y) == <<Sar8(x), Sar8(y)>>

\* int(((y & 255) << 8) | (x & 255))
OffsetOf(x, y) == BitOr(BitAnd(LowBits(y), 255) * 256, BitAnd(LowBits(x), 255))

\* around zero and around the chunk borders on both sides, the tile of
\* Boston's city hall, and the ends of the range
CoordValues ==
    {-Word, -65537, -65536, -257, -256, -255, -1, 0, 1, 255, 256, 65535,
     1212726, 1482243, Word - 1}

CallChunkAndOffset(xs, ys) ==
    /\ \E x \in xs, y \in ys :
        call' = [fn |-> "ChunkOf/OffsetOf", args |-> <<x, y>>,
                 ret |-> <<ChunkOf(x, y)[1], ChunkOf(x, y)[2], OffsetOf(x, y)>>]
    /\ UNCHANGED <<storeVars, now, guardVars, paintVars, readVars, hubVars, connVars,
                   logVars, buf, mask>>

NextCoords == CallChunkAndOffset(CoordValues, CoordValues)

SpecCoords == InitStore /\ [][NextCoords]_vars

(***************************************************************************)
(* The geofence bitmap (geo.Mask): one bit per tile of the window, rows of *)
(* the window's width, the first tile in the most significant bit of the   *)
(* first byte.                                                             *)
(***************************************************************************)
MaskSide == 3

\* NewMask: (width*height + 7) / 8 zero bytes
NewMask(bounds) ==
    LET width == bounds.MaxX - bounds.MinX + 1
        height == bounds.MaxY - bounds.MinY + 1
        bytesNeeded == (width * height + 7) \div 8
    IN  [MinX |-> bounds.MinX, MaxX |-> bounds.MaxX,
         MinY |-> bounds.MinY, MaxY |-> bounds.MaxY,
         data |-> [len |-> bytesNeeded, b |-> [i \in 0..(bytesNeeded - 1) |-> 0]]]

\* bitIndex := int(localY*int64(width) + localX)
BitIndexNoStride(m, x, y) == (y - m.MinY) + (x - m.MinX)
BitIndex(m, x, y) == (y - m.MinY) * (m.MaxX - m.MinX + 1) + (x - m.MinX)

SetTile(m, x, y, allowed) ==
    IF x < m.MinX \/ x > m.MaxX \/ y < m.MinY \/ y > m.MaxY THEN m
    ELSE LET byteIndex == BitIndex(m, x, y) \div 8
             bit == 2 ^ (7 - (BitIndex(m, x, y) % 8))     \* 1 << (7 - bitOffset)
         IN  IF byteIndex >= m.data.len THEN m
             ELSE IF allowed
                 THEN [m EXCEPT !.data.b[byteIndex] = BitOr(@, bit)]
                 ELSE [m EXCEPT !.data.b[byteIndex] = BitAnd(@, 255 - bit)]

\* the bitmap's IsTileAllowed, on the bytes
MaskIsTileAllowed(m, x, y) ==
    IF x < m.MinX \/ x > m.MaxX \/ y < m.MinY \/ y > m.MaxY THEN FALSE
    ELSE LET byteIndex == BitIndex(m, x, y) \div 8
         IN  IF byteIndex >= m.data.len THEN FALSE
             ELSE BitAnd(m.data.b[byteIndex], 2 ^ (7 - (BitIndex(m, x, y) % 8))) # 0

\* the tiles the calls name: the corners, the first tile of the second row
\* and its diagonal neighbour, and the tiles just outside each edge
MaskTargets(m) ==
    {<<m.MinX, m.MinY>>, <<m.MaxX, m.MaxY>>, <<m.MaxX, m.MinY>>,
     <<m.MinX, m.MinY + 1>>, <<m.MinX + 1, m.MinY>>,
     <<m.MinX - 1, m.MinY>>, <<m.MaxX + 1, m.MinY>>,
     <<m.MinX, m.MinY - 1>>, <<m.MinX, m.MaxY + 1>>}

CallSetTile ==
    /\ \E t \in MaskTargets(mask), allowed \in BOOLEAN :
        /\ mask' = SetTile(mask, t[1], t[2], allowed)
        /\ call' = [fn |-> "SetTile", args |-> <<t[1], t[2], allowed>>, ret |-> <<>>]
    /\ UNCHANGED <<storeVars, now, guardVars, paintVars, readVars, hubVars, connVars,
                   logVars, buf>>

CallIsTileAllowed ==
    /\ \E t \in MaskTargets(mask) :
        call' = [fn |-> "IsTileAllowed", args |-> <<t[1], t[2]>>,
                 ret |-> <<MaskIsTileAllowed(mask, t[1], t[2])>>]
    /\ UNCHANGED <<storeVars, now, guardVars, paintVars, readVars, hubVars, connVars,
                   logVars, buf, mask>>

InitMask ==
    /\ InitServer({PlainConfig})
    /\ buf = NoBuf
    \* the window of TestMaskBounds, and a wider one that starts below zero
    /\ mask \in {NewMask(w) : w \in
            {[MinX |-> 100, MaxX |-> 100 + MaskSide - 1,
              MinY |-> 200, MaxY |-> 200 + MaskSide - 1],
             [MinX |-> -1, MaxX |-> MaskSide - 1, MinY |-> -2, MaxY |-> MaskSide - 3]}}
    /\ call = NoCall

NextMask == CallSetTile \/ CallIsTileAllowed

SpecMask == InitMask /\ [][NextMask]_vars

(***************************************************************************)
(* Publishes issued after a subscribe call returned: c1 subscribes to      *)
(* chunk (0,0) and every Publish is called once RegisterConn has returned  *)
(* to c1's handler; c2 subscribes and leaves on its own.                   *)
(***************************************************************************)
PublishAfterSubscribe(h, c) ==
    /\ cpc[c] = "open"
    /\ CallPublish(h, {croom[c]})

NextSubscribe ==
    \/ \E h \in Handlers : PublishAfterSubscribe(h, "c1") \/ PublishStep(h)
    \/ HubRun
    \/ \E c \in Conns :
          \/ RegisterConn(c, {<<0, 0>>})
          \/ WritePumpSend(c)
    \/ \E c \in HubLeavers : ReadPumpExit(c)

SpecSubscribe == InitStore /\ [][NextSubscribe]_vars

(***************************************************************************)
(* Every entry point of the hub at once: two publishers, a connection that *)
(* subscribes and may leave, and a goroutine that asks for the counts.     *)
(* GetRoomCount and GetSubscriberCount hold h.mu in read mode, which       *)
(* Hub.Run's h.mu.Lock() excludes; the room's lock they take in read mode  *)
(* is write-held only within single steps of Hub.Run.                      *)
(***************************************************************************)
CallCount ==
    /\ ~fatal
    /\ call = NoCall \/ call.ret # <<>>
    /\ \/ call' = [fn |-> "GetRoomCount", args |-> <<>>, ret |-> <<>>]
       \/ \E k \in LiveKeys :
            call' = [fn |-> "GetSubscriberCount", args |-> <<k>>, ret |-> <<>>]
    /\ UNCHANGED <<storeVars, now, guardVars, paintVars, readVars, hubVars, connVars,
                   logVars, buf, mask>>

CountReturn ==
    /\ ~fatal
    /\ call.fn \in {"GetRoomCount", "GetSubscriberCount"}
    /\ call.ret = <<>>
    /\ ~hmu
    /\ call' = [call EXCEPT !.ret =
                  IF call.fn = "GetRoomCount" THEN <<Cardinality(rooms)>>
                  ELSE IF call.args[1] \in rooms THEN <<Cardinality(subs[call.args[1]])>>
                  ELSE <<0>>]
    /\ UNCHANGED <<storeVars, now, guardVars, paintVars, readVars, hubVars, connVars,
                   logVars, buf, mask>>

NextCalls ==
    \/ \E h \in Handlers : CallPublish(h, LiveKeys) \/ PublishStep(h)
    \/ HubRun
    \/ RegisterConn("c1", LiveKeys)
    \/ WritePumpSend("c1")
    \/ WritePumpExit("c1")
    \/ ReadPumpExit("c1")
    \/ CallCount
    \/ CountReturn

SpecCalls == InitStore /\ [][NextCalls]_vars /\ Fairness /\ WF_vars(CountReturn)

(***************************************************************************)
(* The read deadline of ReadPump.  It is set when the pump starts and by   *)
(* the pong handler, and nowhere else: ReadMessage returns the frames the  *)
(* client sends, and fails once the deadline has passed.  Time passes in   *)
(* steps of IdleStep seconds and never past a deadline that is due.        *)
(***************************************************************************)
\* the client sends a frame: a data frame (text or binary), which ReadMessage
\* returns and the loop drops, or a pong, which runs the pong handler
ClientFrame(c, kind) ==
    /\ cpc[c] = "open"
    /\ idle[c].timer < IdleTimeout
    /\ idle' = [idle EXCEPT ![c] =
                  IF kind = "pong" THEN ReadDeadlineSet ELSE [@ EXCEPT !.quiet = 0]]
    /\ UNCHANGED <<libVars, storeVars, now, guardVars, paintVars, readVars, hubVars,
                   cpc, croom, send, closed, wpc, frames, logVars>>

Elapse ==
    /\ \E c \in Conns : cpc[c] = "open"
    /\ \A c \in Conns : cpc[c] = "open" => idle[c].timer < IdleTimeout
    /\ idle' = [c \in Conns |->
                  IF cpc[c] = "open"
                      THEN [timer |-> idle[c].timer + IdleStep, quiet |-> idle[c].quiet + IdleStep]
                      ELSE idle[c]]
    /\ UNCHANGED <<libVars, storeVars, now, guardVars, paintVars, readVars, hubVars,
                   cpc, croom, send, closed, wpc, frames, logVars>>

\* ReadMessage fails with a timeout: the loop breaks and the pump unregisters
ReadTimeout(c) ==
    /\ idle[c].timer >= IdleTimeout
    /\ ReadPumpExit(c)

NextIdle ==
    \/ HubRun
    \/ Elapse
    \/ \E c \in Conns :
          \/ RegisterConn(c, LiveKeys)
          \/ ClientFrame(c, "data")
          \/ ClientFrame(c, "pong")
          \/ ReadTimeout(c)
          \/ WritePumpExit(c)

SpecIdle ==
    /\ InitStore
    /\ [][NextIdle]_vars
    /\ WF_vars(HubRun)
    /\ \A c \in Conns : WF_vars(ReadTimeout(c))

(***************************************************************************)
(* TestWebSocketConnection and TestWebSocketMultipleConnections: the       *)
(* test's handler makes its Conn (c1) without a roomID and sends it on     *)
(* hub.register; the test sleeps until the connection is registered and    *)
(* Hub.Run is back at its select, and then calls Publish(0, 0, delta).     *)
(* Beside it c2 subscribes to chunk (0,0) through RegisterConn, as the     *)
(* server's GET /sub does, and may leave.                                  *)
(***************************************************************************)
TestPublish(h) ==
    /\ cpc["c1"] = "open"
    /\ runpc = "select"
    /\ CallPublish(h, {<<0, 0>>})

NextTestHub ==
    \/ \E h \in Handlers : TestPublish(h) \/ PublishStep(h)
    \/ HubRun
    \/ RegisterConn("c1", {NoKey})
    \/ RegisterConn("c2", {<<0, 0>>})
    \/ \E c \in Conns : WritePumpSend(c)
    \/ \E c \in HubLeavers : ReadPumpExit(c)

SpecTestHub == InitStore /\ [][NextTestHub]_vars /\ Fairness

(***************************************************************************)
(* rate.RateLimiter: a sliding window of the granted requests of each IP.  *)
(* Allow runs under r.mu, so a call is one step.                           *)
(***************************************************************************)
\* the requests of the slice with reqTime.After(now.Add(-window))
ValidRequests(times, window, t) == SelectSeq(times, LAMBDA reqTime : reqTime > t - window)

\* an Allow that counts every request it ever recorded
AllowNeverForgets(tab, ip, limit, window, t) ==
    IF Len(tab[ip]) >= limit
        THEN [tab |-> tab, ok |-> FALSE]
        ELSE [tab |-> [tab EXCEPT ![ip] = Append(tab[ip], t)], ok |-> TRUE]

Allow(tab, ip, limit, window, t) ==
    IF Len(ValidRequests(tab[ip], window, t)) >= limit
        THEN [tab |-> tab, ok |-> FALSE]
        ELSE [tab |-> [tab EXCEPT ![ip] = Append(ValidRequests(tab[ip], window, t), t)],
              ok |-> TRUE]

CallAllow(ips) ==
    /\ \E ip \in ips :
        LET a == Allow(requests, ip, RateLimit, RateWindow, now) IN
        /\ requests' = a.tab
        /\ granted' = IF a.ok THEN [granted EXCEPT ![ip] = Append(@, now)] ELSE granted
        /\ call' = [fn |-> "Allow", args |-> <<ip>>, ret |-> <<a.ok>>]
    /\ UNCHANGED <<storeVars, now, cfg, lastPositions, cooldowns, paintVars, readVars,
                   hubVars, connVars, logVars, buf, mask>>

NextRate ==
    \/ CallAllow(Clients)
    \/ Tick

SpecRate == InitStore /\ [][NextRate]_vars

(***************************************************************************)
(* rate.Limiter called as its tests call it: SetCooldown and CheckCooldown *)
(* for two identities, with a duration shorter than a clock step, of one    *)
(* step, of two steps, and the default one.                                *)
(***************************************************************************)
CallSetCooldown(ips) ==
    /\ \E ip \in ips :
        /\ cooldowns' = SetCooldown(cooldowns, ip, now)
        /\ call' = [fn |-> "SetCooldown", args |-> <<ip>>, ret |-> <<>>]
    /\ UNCHANGED <<storeVars, now, cfg, lastPositions, requests, granted, paintVars,
                   readVars, hubVars, connVars, logVars, buf, mask>>

CallCheckCooldown(ips, durations) ==
    /\ \E ip \in ips, d \in durations :
        /\ cooldowns' = CheckCooldown(cooldowns, ip, d, now).tab
        /\ call' = [fn |-> "CheckCooldown", args |-> <<ip, d>>,
                    ret |-> <<CheckCooldown(cooldowns, ip, d, now).hot>>]
    /\ UNCHANGED <<storeVars, now, cfg, lastPositions, requests, granted, paintVars,
                   readVars, hubVars, connVars, logVars, buf, mask>>

NextCooldown ==
    \/ CallSetCooldown(Clients)
    \/ CallCheckCooldown(Clients, {100, 1000, 2000, PaintCooldownMs})
    \/ Tick

SpecCooldown == InitStore /\ [][NextCooldown]_vars

(***************************************************************************)
(* TurnstileClient.Verify as a function of what the verifier sends back.   *)
(* An answer has the HTTP status, a body, whether it arrived within the    *)
(* client's timeout and whether the caller's context was still live.  A    *)
(* body is either not JSON or a JSON object given by the fields it has.    *)
(***************************************************************************)
NotJSON == [json |-> FALSE, fields |-> [k \in {} |-> FALSE]]

\* json.Unmarshal(body, &turnstileResp): an absent field keeps the zero value
Unmarshal(body) ==
    IF ~body.json
        THEN [ok |-> FALSE, Success |-> FALSE, ErrorCodes |-> <<>>]
        ELSE [ok |-> TRUE,
              Success |-> IF "success" \in DOMAIN body.fields
                              THEN body.fields["success"] ELSE FALSE,
              ErrorCodes |-> IF "error-codes" \in DOMAIN body.fields
                                 THEN body.fields["error-codes"] ELSE <<>>]

\* the (nil, err) return
VerifyError == [err |-> TRUE, Success |-> FALSE, ErrorCodes |-> <<>>]

\* Verify: client.Do fails on a cancelled context or a timeout (io.ReadAll
\* fails when the timeout hits while the body is read), then the body is
\* decoded; resp.StatusCode is never read.
Verify(answer) ==
    IF answer.ctx = "cancelled" \/ answer.arrives = "late"
        THEN VerifyError
    ELSE IF ~Unmarshal(answer.body).ok
        THEN VerifyError
    ELSE [err |-> FALSE, Success |-> Unmarshal(answer.body).Success,
          ErrorCodes |-> Unmarshal(answer.body).ErrorCodes]

\* the bodies of the tests' mock verifiers, and JSON objects lacking a field
VerifierBodies ==
    LET flags == [{"success"} -> BOOLEAN]
        codes == [{"error-codes"} ->
                     {<<>>, <<"invalid-input-response">>,
                      <<"invalid-input-response", "timeout-or-duplicate">>}]
    IN  {NotJSON} \cup
        {[json |-> TRUE, fields |-> f] :
            f \in {NotJSON.fields} \cup flags \cup codes
                    \cup {s @@ c : s \in flags, c \in codes}}

CallVerify(answers) ==
    /\ \E answer \in answers :
        call' = [fn |-> "Verify", args |-> <<answer>>, ret |-> <<Verify(answer)>>]
    /\ UNCHANGED <<storeVars, now, guardVars, paintVars, readVars, hubVars,
                   connVars, logVars, buf, mask>>

NextVerify ==
    CallVerify([status : {200, 500}, body : VerifierBodies,
                arrives : {"in time", "late"}, ctx : {"live", "cancelled"}])

SpecVerify == InitStore /\ [][NextVerify]_vars


Last(q) == q[Len(q)]

\* The body a read of chunk c returned after its first n paints.
BodyAfter(c, n) == IF n = 0 THEN ChunkBody(EmptyStr) ELSE hist[c][n].body

(***************************************************************************)
(* C1: for any interleaving of concurrent PaintTile calls on one chunk,    *)
(* the i-th paint of the chunk to run returns seq i (1 + the previous seq, *)
(* the first one 1), so the returned seqs are 1..N without gaps or         *)
(* duplicates, and the stored seq is the number of completed paints.       *)
(***************************************************************************)
C1_SeqIsPaintCount ==
    /\ \A c \in Chunks :
        /\ seq[c] = Len(hist[c])
        /\ \A i \in 1..Len(hist[c]) :
            /\ hist[c][i].ret.seq = i
            /\ resp[hist[c][i].rid].seq = i
    /\ \A c \in Chunks : \A m, n \in 1..Len(hist[c]) :
        m # n => resp[hist[c][m].rid].seq # resp[hist[c][n].rid].seq

\* Two calls on one chunk were in flight together and the one started later
\* ran first; both have returned.
C1_Witness ==
    \E c \in Chunks :
        /\ Len(hist[c]) >= 2
        /\ hist[c][1].rid > hist[c][2].rid
        /\ resp[hist[c][1].rid].seq = 1
        /\ resp[hist[c][2].rid].seq = 2

(***************************************************************************)
(* C3: GET /state/chunk returns a body and an X-Seq that were true of the  *)
(* chunk at one same moment: the body is the chunk after exactly the first *)
(* X-Seq paints.                                                           *)
(***************************************************************************)
C3_SnapshotAtXSeq ==
    \A r \in Readers :
        rpc[r] = "done" => rresp[r].body = BodyAfter(rresp[r].chunk, rresp[r].xseq)

(***************************************************************************)
(* C10: a PaintTile with o in 0..65535 and a colour in 0..15 returns the   *)
(* colour cell o held before the call, leaves cell o holding the colour,   *)
(* and changes no other cell of the chunk, nor its length, nor the bytes   *)
(* or the seq of any other chunk.                                          *)
(***************************************************************************)
\* The cells of the bytes the model keeps.
TrackedCells == UNION {{2 * i, 2 * i + 1} : i \in TrackedIdx}

C10_PaintStep ==
    \A h \in Handlers :
        (hpc[h] = "tile" /\ hpc'[h] = "idle"
            /\ hreq[h].o \in 0..MaxOffset /\ hreq[h].color \in 0..MaxColor)
        => LET r == hreq[h]
               before == ChunkBody(bits[r.chunk])
               after == ChunkBody(bits'[r.chunk])
           IN  /\ Len(hist'[r.chunk]) = Len(hist[r.chunk]) + 1
               /\ Last(hist'[r.chunk]).ret.prev = GetNibble(before, r.o)
               /\ GetNibble(after, r.o) = r.color
               /\ \A o \in TrackedCells \ {r.o} : GetNibble(after, o) = GetNibble(before, o)
               /\ after.len = before.len
               /\ \A c \in Chunks \ {r.chunk} : bits'[c] = bits[c] /\ seq'[c] = seq[c]

C10_PaintTouchesOneCell == [][C10_PaintStep]_vars

\* Cell 0 was painted 5, its byte neighbour 3, and then cell 0 again.
C10_Witness ==
    \E c \in Chunks :
        /\ Len(hist[c]) = 3
        /\ hist[c][3].o = 0 /\ hist[c][3].ret.prev = 5 /\ hist[c][3].color = 3
        /\ GetNibble(ChunkBody(bits[c]), 1) = 3
        /\ GetNibble(ChunkBody(bits[c]), 0) = 3


Range(q) == {q[i] : i \in 1..Len(q)}

\* The deltas a connection was handed, in order: those WritePump has written
\* and those still in the outbox.
Seen(c) == frames[c] \o send[c]

\* The goroutines tearing connection c down.
TearingDown(c) == {h \in Handlers : hpc[h] \in {"close", "delete"} /\ pcur[h] = c}

(***************************************************************************)
(* C5: when a broadcast finds a subscriber's outbox full the delta is not  *)
(* enqueued for it, its outbox is closed and it is removed from the room;  *)
(* no outbox ever holds more than its capacity, and a goroutine inside     *)
(* broadcast can always take its next step whatever the subscribers do.    *)
(* (Closed and removed: once no goroutine is in the middle of tearing it   *)
(* down, in a process that is still running.)                              *)
(***************************************************************************)
C5_State ==
    /\ \A c \in Conns : Len(send[c]) <= OutboxCap
    /\ \A h \in Handlers :
        hpc[h] \in {"close", "delete"} => pdelta[h] \notin Range(Seen(pcur[h]))
    /\ \A c \in Conns :
        (closed[c] /\ TearingDown(c) = {} /\ ~fatal) => \A k \in RoomKeys : c \notin subs[k]
    /\ \A h \in Handlers :
        hpc[h] \in {"range", "close", "delete"} => ENABLED PublishStep(h)

C5_Step ==
    \A h \in Handlers :
        /\ (hpc[h] = "range" /\ hpc'[h] = "close")
              => /\ Len(send[pcur'[h]]) = OutboxCap
                 /\ send' = send
        /\ (hpc[h] = "close" /\ hpc'[h] = "delete") => closed'[pcur[h]]
        /\ (hpc[h] = "delete" /\ hpc'[h] = "range")
              => \A k \in RoomKeys : pcur[h] \notin subs'[k]

C5_FullOutboxTornDown == [](C5_State) /\ [][C5_Step]_vars

\* A connection was torn down by one Publish with its outbox full; nothing
\* panicked.
C5_Witness ==
    \E c \in Conns :
        /\ cpc[c] = "open" /\ closed[c] /\ TearingDown(c) = {}
        /\ Len(send[c]) = OutboxCap
        /\ \A k \in RoomKeys : c \notin subs[k]
        /\ panics = {}

(***************************************************************************)
(* C6: a Publish during which a subscriber is torn down for a full outbox  *)
(* still hands its delta to every other subscriber of the room: when the   *)
(* Publish ends, every open subscriber still in the room, other than the   *)
(* one it was tearing down, has the delta.                                 *)
(***************************************************************************)
C6_Step ==
    \A h \in Handlers :
        (hpc[h] \in {"range", "close"} /\ hpc'[h] = "idle")
        => \A c \in RoomSubs(h) \ {pcur[h]} :
              ~closed'[c] => pdelta[h] \in Range(frames'[c] \o send'[c])

C6_OthersStillServed == [][C6_Step]_vars

(***************************************************************************)
(* C7: under any interleaving of concurrent Publish calls no goroutine     *)
(* sends to a closed outbox or closes an outbox twice: no panic happens.   *)
(***************************************************************************)
C7_NoPanic == panics = {}

(***************************************************************************)
(* C8: any two deltas that both reach two subscribers of one room reach    *)
(* them in the same relative order.                                        *)
(***************************************************************************)
C8_SameOrder ==
    \A c1, c2 \in Conns :
        croom[c1] = croom[c2] =>
            \A i, j \in 1..Len(Seen(c1)) : \A k, l \in 1..Len(Seen(c2)) :
                (i < j /\ Seen(c1)[i] = Seen(c2)[k] /\ Seen(c1)[j] = Seen(c2)[l]) => k < l

(***************************************************************************)
(* C9: every step of Publish(cx,cy,delta) appends the delta only to        *)
(* outboxes of subscribers in the room of (cx,cy) and closes or removes    *)
(* only such subscribers; the subscribers of other rooms and the set of    *)
(* rooms are unchanged, and without a room for (cx,cy) the call returns    *)
(* having changed nothing.                                                 *)
(***************************************************************************)
\* This step is one of h's Publish (a step in which the runtime aborts the
\* process being the step of the goroutine that was at its delete).
PublishMoved(h) ==
    /\ hpc[h] \in {"publish", "rlock", "range", "close", "delete"}
    /\ hpc'[h] # hpc[h] \/ ptodo'[h] # ptodo[h]
    /\ fatal' => hpc[h] = "delete"

C9_Step ==
    \A h \in Handlers :
        PublishMoved(h) =>
            /\ rooms' = rooms
            /\ \A k \in RoomKeys \ {pkey[h]} : subs'[k] = subs[k]
            /\ subs'[pkey[h]] \subseteq subs[pkey[h]]
            /\ frames' = frames
            /\ \A c \in Conns :
                /\ send'[c] # send[c] =>
                      /\ c \in subs[pkey[h]] /\ croom[c] = pkey[h]
                      /\ send'[c] = Append(send[c], pdelta[h])
                /\ closed'[c] # closed[c] => c \in subs[pkey[h]] /\ croom[c] = pkey[h]
            /\ (hpc[h] = "publish" /\ pkey[h] \notin rooms) =>
                  /\ hpc'[h] = "idle"
                  /\ UNCHANGED <<subs, send, closed>>

C9_OnlyItsRoom == [][C9_Step]_vars

\* Two rooms with a subscriber each; the publishes so far all went to the
\* first, whose subscriber got a delta while the other got none.
C9_Witness ==
    \E c1, c2 \in Conns :
        /\ cpc[c1] = "open" /\ cpc[c2] = "open"
        /\ croom[c1] # croom[c2]
        /\ c1 \in subs[croom[c1]] /\ c2 \in subs[croom[c2]]
        /\ pubs # {} /\ \A p \in pubs : p.key = croom[c1]
        /\ Seen(c1) # <<>> /\ Seen(c2) = <<>>


(***************************************************************************)
(* C4: a POST /paint answered 400, 401, 403, 429 or 500 leaves what a read *)
(* of every chunk returns (bytes and seq) unchanged and calls Publish for  *)
(* no delta; a delta handed to the hub is that of a paint whose write is   *)
(* already in the store.                                                   *)
(***************************************************************************)
Rejected(r) == r.status \in {400, 401, 403, 429, 500}

C4_State ==
    /\ \A i \in DOMAIN resp :
        Rejected(resp[i]) =>
            /\ \A c \in Chunks : \A e \in Range(hist[c]) : e.rid # i
            /\ \A p \in pubs : p.rid # i
    /\ \A p \in pubs :
        \E c \in Chunks : \E e \in Range(hist[c]) :
            /\ e.rid = p.rid /\ RoomKey(c) = p.key
            /\ p.delta.seq = e.ret.seq /\ p.delta.color = e.color
            /\ seq[c] >= p.delta.seq

C4_Step ==
    \A i \in DOMAIN resp :
        (resp[i] = NoResp /\ Rejected(resp'[i])) =>
            /\ \A c \in Chunks :
                ChunkBody(bits'[c]) = ChunkBody(bits[c]) /\ seq'[c] = seq[c]
            /\ pubs' = pubs

C2_IncreasingSeq ==
    \A c \in Conns :
        ~closed[c] =>
            \A i, j \in 1..Len(Seen(c)) : i < j => Seen(c)[i].seq < Seen(c)[j].seq

(***************************************************************************)
(* C11: after PaintTile(cx,cy,o,c) has returned seq s, every later read of *)
(* the chunk returns a seq >= s (GetChunkSeq) and bytes whose cell o holds *)
(* c (GetChunkBits).                                                       *)
(***************************************************************************)
\* The paints of chunk c that have returned to their caller without an error.
ReturnedPaints(c) == {e \in Range(hist[c]) : resp[e.rid].status = 200}

C11_ReadStep ==
    \A r \in Readers :
        /\ (rpc[r] = "idle" /\ rpc'[r] = "bits")
              => \A e \in ReturnedPaints(rchunk'[r]) : rseq'[r] >= e.ret.seq
        /\ (rpc[r] = "bits" /\ rpc'[r] = "done")
              => \A e \in ReturnedPaints(rchunk[r]) :
                    GetNibble(rresp'[r].body, e.o) = e.color

C11_ReadSeesPaint == [][C11_ReadStep]_vars

(***************************************************************************)
(* C11 as amended: after PaintTile(cx,cy,o,c) has returned seq s, every    *)
(* later read of the chunk returns a seq >= s, and bytes whose cell o      *)
(* holds the colour of the latest paint of cell o to have run: c itself    *)
(* unless cell o was painted again since.                                  *)
(***************************************************************************)
\* The colour of the latest paint of cell o of chunk c.
LatestColor(c, o) ==
    LET at == {i \in 1..Len(hist[c]) : hist[c][i].o = o}
        last == CHOOSE i \in at : \A j \in at : j <= i
    IN  hist[c][last].color

C11_AmendedStep ==
    \A r \in Readers :
        /\ (rpc[r] = "idle" /\ rpc'[r] = "bits")
              => \A e \in ReturnedPaints(rchunk'[r]) : rseq'[r] >= e.ret.seq
        /\ (rpc[r] = "bits" /\ rpc'[r] = "done")
              => \A e \in ReturnedPaints(rchunk[r]) :
                    GetNibble(rresp'[r].body, e.o) = LatestColor(rchunk[r], e.o)

C11_ReadSeesLatestPaint == [][C11_AmendedStep]_vars

\* Cell 0 was painted 5 and then 3, its byte neighbour 3 in between or after;
\* a read that began after the second paint returned seq and bytes.
C11_Witness ==
    \E r \in Readers :
        /\ rpc[r] = "done"
        /\ Len(hist[rresp[r].chunk]) >= 2
        /\ hist[rresp[r].chunk][1].o = 0 /\ hist[rresp[r].chunk][1].color = 5
        /\ hist[rresp[r].chunk][2].o = 0 /\ hist[rresp[r].chunk][2].color = 3
        /\ rresp[r].xseq >= 2
        /\ GetNibble(rresp[r].body, 0) = 3

(***************************************************************************)
(* C12: for every paint of a cell o in 0..65535 that the store ran, the    *)
(* delta PostPaint hands to Hub.Publish goes to the room of the paint's    *)
(* chunk and carries the seq and ts the store returned for that paint, the *)
(* offset o and the colour the paint left in cell o; the 200 response of   *)
(* the paint carries the same seq and ts.  Every delta handed to the hub   *)
(* is that of a paint the store ran.                                       *)
(***************************************************************************)
C12_DeltaMatchesWrite ==
    /\ \A p \in pubs : \E c \in Chunks : \E e \in Range(hist[c]) : e.rid = p.rid
    /\ \A c \in Chunks : \A e \in Range(hist[c]) :
        e.o \in 0..MaxOffset =>
            /\ \A p \in pubs :
                p.rid = e.rid =>
                    /\ p.key = RoomKey(c)
                    /\ p.delta = [seq |-> e.ret.seq, o |-> e.o,
                                  color |-> GetNibble(e.body, e.o), ts |-> e.ret.ts]
                    /\ p.delta.color = e.color
            /\ resp[e.rid].status = 200 =>
                /\ resp[e.rid].seq = e.ret.seq
                /\ resp[e.rid].ts = e.ret.ts
                /\ \E p \in pubs : p.rid = e.rid

\* The last cell of a chunk was painted after the clock had advanced, as the
\* second paint of the chunk; its delta was published and its 200 sent.
C12_Witness ==
    \E p \in pubs :
        /\ p.delta.o = MaxOffset /\ p.delta.seq = 2 /\ p.delta.ts = 1
        /\ resp[p.rid].status = 200 /\ resp[p.rid].seq = 2

(***************************************************************************)
(* C13: of two valid POST /paint requests of one client identity less than *)
(* the cooldown window (5000 ms) apart, only the first is accepted: no two *)
(* paints of one identity whose store timestamps are less than the window  *)
(* apart are both written to the store and answered 200.                   *)
(***************************************************************************)
\* The paints the store ran whose request was answered 200.
AcceptedPaints == {e \in UNION {Range(hist[c]) : c \in Chunks} : resp[e.rid].status = 200}

C13_SecondPaintCoolsDown ==
    \A e1, e2 \in AcceptedPaints :
        (e1.rid # e2.rid /\ e1.ip = e2.ip)
            => Abs(e1.ret.ts - e2.ret.ts) * 1000 >= PaintCooldownMs

(***************************************************************************)
(* C14: the cooldown check and the cooldown set of one client identity are *)
(* one critical section: at no time have two goroutines both passed the    *)
(* check for the same identity without either having set its entry yet.    *)
(***************************************************************************)
C14_CheckAndSetAtomic ==
    \A h1, h2 \in Handlers :
        (h1 # h2 /\ hpc[h1] = "setcooldown" /\ hpc[h2] = "setcooldown")
            => hreq[h1].ip # hreq[h2].ip

(***************************************************************************)
(* C15: a paint rejected by any rule neither creates nor refreshes the     *)
(* cooldown entry of its client identity, which is written only in the     *)
(* step that accepts a paint; and a rejected paint does not delay the      *)
(* client's next accepted paint: a paint the limiters would have let       *)
(* through before the rejection, they still let through after it.          *)
(***************************************************************************)
\* Whether the limiters, holding these tables, let a paint of ip at pos through
\* at time t.
LimitersPass(positions, cools, ip, pos, t) ==
    /\ CheckSpeed(positions, ip, pos, t).ok
    /\ ~CheckCooldown(cools, ip, PaintCooldownMs, t).hot

C15_Step ==
    /\ \A i \in DOMAIN resp :
        (resp[i] = NoResp /\ Rejected(resp'[i])) =>
            /\ cooldowns' = cooldowns
            /\ \A ip \in IPs, pos \in {p \in Points : InBostonBox(p)}, t \in now..(now + 1) :
                LimitersPass(lastPositions, cooldowns, ip, pos, t)
                    => LimitersPass(lastPositions', cooldowns', ip, pos, t)
    /\ cooldowns' # cooldowns =>
            \E i \in DOMAIN resp : resp[i] = NoResp /\ resp'[i].status = 200

C15_RejectedPaintKeepsCooldown == [][C15_Step]_vars

(***************************************************************************)
(* C16: when PostPaint applies the speed rule to a paint of an identity    *)
(* that has a recorded position, some (positive) time dt before: if the    *)
(* distance from that position divided by dt exceeds 150 km/h the paint is *)
(* answered 403 'speed limit exceeded'; if it does not, or if the identity *)
(* has no recorded position (its very first paint), the speed rule does    *)
(* not reject it.                                                          *)
(***************************************************************************)
\* distance / dt > 150 km/h, with the distance in mm and dt in s
ExceedsMaxSpeed(distMm, dt) == distMm * 3600 > SpeedMaxKmh * 1000000 * dt

RejectedBySpeed(r) == r.status = 403 /\ r.reason = "speed limit exceeded"

C16_Step ==
    \A h \in Handlers :
        (hpc[h] = "speed" /\ hpc'[h] # "speed") =>
            LET r == hreq[h]
                prev == lastPositions[r.ip]
                dt == now - prev.time
                dist == HaversineMm(prev.pos, r.pos)
            IN  /\ (prev.exists /\ dt > 0 /\ ExceedsMaxSpeed(dist, dt))
                      => RejectedBySpeed(resp'[r.rid])
                /\ (~prev.exists \/ (dt > 0 /\ ~ExceedsMaxSpeed(dist, dt)))
                      => ~RejectedBySpeed(resp'[r.rid])

C17_PositionOfAcceptedPaint ==
    (\A h \in Handlers : hpc[h] = "idle") =>
        \A ip \in IPs :
            lastPositions[ip].exists =>
                \E e \in AcceptedPaints : e.ip = ip /\ e.pos = lastPositions[ip].pos

(***************************************************************************)
(* C18: no paint of a tile farther than the geofence radius (300 m) from   *)
(* the submitted position reaches the store: every paint the store ran has *)
(* a position within the radius of the centre of the tile (cx, cy, o).     *)
(***************************************************************************)
\* The centre of the tile (cx*256 + o%256, cy*256 + o/256), in microdegrees, to
\* within 0.002 degrees: the tiles of the chunks (0,0) and (1,0) are the top
\* left corner of the Mercator grid of LatLonToTileXY.
TargetTileCenter(chunk, o) ==
    [lat |-> 85050000, lon |-> IF chunk[1] = 0 THEN -179990000 ELSE -179970000]

\* A lower bound of the distance of two points, in km: 111 km for every whole
\* degree of latitude between them.
LatitudeGapKm(p, q) == (Abs(p.lat - q.lat) \div 1000000) * 111

BeyondRadius(pos, chunk, o) ==
    LatitudeGapKm(pos, TargetTileCenter(chunk, o)) * 1000 > GeofenceRadiusM

C18_PaintWithinRadius ==
    \A c \in Chunks : \A e \in Range(hist[c]) : ~BeyondRadius(e.pos, c, e.o)

(***************************************************************************)
(* C19: the admission rules are evaluated in the order token, geofence     *)
(* mask, radius, speed, cooldown and stop at the first failure: a paint    *)
(* with a valid token whose position is outside the configured mask is     *)
(* answered with the mask's rejection, whatever later rules it also        *)
(* violates, and the speed rule, which comes later, is not evaluated for   *)
(* it and leaves no side effect (the position table is unchanged).         *)
(***************************************************************************)
OutsideMask(pos) == ~cfg.mask.nil /\ ~IsTileAllowed(cfg.mask, LatLonToTileXY(pos))

C19_Step ==
    \A h \in Handlers :
        (hpc[h] = "speed" /\ hpc'[h] # "speed" /\ OutsideMask(hreq[h].pos)) =>
            /\ resp'[hreq[h].rid].status = 403
            /\ resp'[hreq[h].rid].reason = "outside mask"
            /\ lastPositions' = lastPositions

C19_FirstFailingRuleWins == [][C19_Step]_vars

(***************************************************************************)
(* C20: with token checking enabled, a paint without a token, a paint      *)
(* whose token the verifier rejects and a paint whose verification errors  *)
(* or times out get the same response, 401 'turnstile', and leave the same *)
(* server state: nothing but the response is changed (no position, no      *)
(* cooldown, no chunk, no hub change), also when the request violates      *)
(* other rules as well.                                                    *)
(***************************************************************************)
TokenFailure == [status |-> 401, reason |-> "turnstile", seq |-> 0, ts |-> 0]

\* The request decodes and its token check fails.
TokenFailing(body, verdict) ==
    body.json /\ (body.token = "" \/ verdict \in {"failure", "error", "timeout"})

C20_Step ==
    (nreq' = nreq + 1 /\ cfg.turnstile) =>
        \/ /\ resp' = [resp EXCEPT ![nreq + 1] = TokenFailure]
           /\ UNCHANGED <<storeVars, lastPositions, cooldowns, paintVars, readVars,
                          hubVars, connVars, hist, pubs, panics, fatal>>
        \/ ~\E h \in Handlers, body \in TokenBodies, ip \in IPs,
                verdict \in VerifyOutcomes :
                TokenFailing(body, verdict) /\ PostPaintDecode(h, body, ip, verdict)

C20_TokenFailuresAlike == [][C20_Step]_vars

\* Three requests were answered 401 after one paint had been accepted: the
\* chunk, the position entry and the publishes are those of that one paint.
C20_Witness ==
    /\ resp[1].status = 200
    /\ resp[2] = TokenFailure
    /\ resp[3] = TokenFailure
    /\ seq[<<0, 0>>] = 1
    /\ lastPositions["ip1"].pos = Home
    /\ Cardinality(pubs) = 1

(***************************************************************************)
(* C21: a POST /paint whose o is outside 0..65535 or whose color is outside *)
(* 0..15 is answered 400 and never reaches the store: every paint that      *)
(* changed a chunk's bytes or seq has o in 0..65535 and color in 0..15.     *)
(***************************************************************************)
InRange(o, color) == o \in 0..MaxOffset /\ color \in 0..MaxColor

C21_OutOfRangeNeverStored ==
    \A c \in Chunks : \A e \in Range(hist[c]) :
        InRange(e.o, e.color)

(***************************************************************************)
(* C22: after any sequence of POST /paint requests every stored chunk      *)
(* buffer is exactly 32,768 bytes long: a chunk is absent or has that      *)
(* length, and no paint changes the length of a chunk that exists.         *)
(***************************************************************************)
C22_ChunkLengthFixed ==
    \A c \in Chunks : bits[c].len \in {0, ChunkLen}

(***************************************************************************)
(* C23: GET /state/chunk with valid cx and cy always answers 200 with a    *)
(* body of exactly 32,768 bytes and an X-Seq header; for a chunk that was  *)
(* never painted the body is all zero and X-Seq is 0.  (That a read leaves *)
(* the store alone is part of the amended statement below.)                *)
(***************************************************************************)
BlankBody == PadChunk(EmptyStr)

\* The response of a finished read of a chunk that no paint has changed.
ReadOfBlankChunk(rr) == hist[rr.chunk] = <<>> => rr.body = BlankBody /\ rr.xseq = 0

C23_ReadAlwaysOk ==
    \A r \in Readers : rpc[r] = "done" =>
        /\ rresp[r].status = 200
        /\ rresp[r].body.len = ChunkLen
        /\ ReadOfBlankChunk(rresp[r])

(***************************************************************************)
(* C23, amended: GET /state/chunk with valid cx and cy answers 200 with a  *)
(* body of exactly 32,768 bytes and an X-Seq header, or 500 when a Redis   *)
(* call of the read failed; for a chunk that was never painted the body of *)
(* a 200 is all zero and X-Seq is 0; and no step of a read creates the     *)
(* chunk or changes any seq.                                               *)
(***************************************************************************)
C23_Step ==
    \A r \in Readers :
        rpc'[r] # rpc[r] =>
            /\ UNCHANGED <<bits, seq, hist>>
            /\ rpc'[r] = "done" =>
                  \/ /\ rresp'[r].status = 200
                     /\ rresp'[r].body.len = ChunkLen
                     /\ rresp'[r].xseq \in Nat
                     /\ ReadOfBlankChunk(rresp'[r])
                  \/ /\ rresp'[r].status = 500
                     /\ GetChunkOutage(r)

C23_ReadOkUnlessOutage == [][C23_Step]_vars

\* A read of the never painted chunk (1,0) was answered 200 with the blank
\* body and X-Seq 0 while chunk (0,0) had been painted, and Redis has no key
\* for chunk (1,0).
C23_Witness ==
    \E r \in Readers :
        /\ rpc[r] = "done"
        /\ rresp[r] = [chunk |-> <<1, 0>>, status |-> 200, xseq |-> 0, body |-> BlankBody]
        /\ hist[<<0, 0>>] # <<>>
        /\ bits[<<1, 0>>] = EmptyStr
        /\ seq[<<1, 0>>] = 0

(***************************************************************************)
(* C24: a room exists for a chunk key exactly from the first registration  *)
(* for that key until the unregistration of its last subscriber has been   *)
(* processed.  While the process runs, a room of the hub has a registered  *)
(* connection whose unregistration Hub.Run has not finished, and every     *)
(* subscriber is in a room of the hub.  Once Hub.Run has handled a         *)
(* register the room exists and contains the connection; once it has       *)
(* handled an unregister the room is gone if it was left empty and is kept *)
(* otherwise; an unregister removes no other subscriber and no other room, *)
(* and nothing but Hub.Run adds or removes a room.                         *)
(***************************************************************************)
\* The connections registered for key k whose unregister Hub.Run has not
\* finished handling.
Registered(k) == {c \in Conns : croom[c] = k /\ (cpc[c] = "open" \/ runconn = c)}

C24_State ==
    \A k \in RoomKeys :
        /\ (k \in rooms /\ ~fatal) => Registered(k) # {}
        /\ subs[k] # {} => k \in rooms

C24_Step ==
    LET k == croom[runconn] IN
    /\ (runpc = "add" /\ runpc' = "select") =>
            /\ k \in rooms'
            /\ runconn \in subs'[k]
            /\ rooms' = rooms
    /\ (runpc = "remove" /\ runpc' = "len") =>
            /\ subs' = [subs EXCEPT ![k] = @ \ {runconn}]
            /\ rooms' = rooms
    /\ (runpc = "len" /\ runpc' = "select") =>
            /\ k \in rooms' <=> subs[k] # {}
            /\ rooms' \ {k} = rooms \ {k}
            /\ subs' = subs
    /\ rooms' # rooms =>
            \/ runpc = "len" /\ runpc' = "select"
            \/ \E c \in Conns : cpc[c] = "new" /\ cpc'[c] = "open" /\ rooms' = rooms \cup {croom'[c]}

C24_RoomLifetime == [](C24_State) /\ [][C24_Step]_vars

\* c2 subscribed to the room of c1 and left: the room is still there with c1
\* in it.
C24_RoomKept ==
    /\ cpc["c2"] = "gone"
    /\ croom["c2"] = <<0, 0>>
    /\ runpc = "select"
    /\ rooms = {<<0, 0>>}
    /\ subs[<<0, 0>>] = {"c1"}

\* c2 was the only subscriber of room (1,0) and left: that room is gone, the
\* room of c1 is not.
C24_Witness ==
    /\ cpc["c2"] = "gone"
    /\ croom["c2"] = <<1, 0>>
    /\ runpc = "select"
    /\ rooms = {<<0, 0>>}
    /\ subs[<<0, 0>>] = {"c1"}

(***************************************************************************)
(* C25: whenever a room is left with zero subscribers, by unregistration   *)
(* or because its last subscriber was torn down for a full outbox, the     *)
(* room is eventually removed from the hub (in a process that is still     *)
(* running).                                                               *)
(***************************************************************************)
\* Room k is in the hub without a subscriber, and Hub.Run is not in the
\* middle of adding one to it.
LeftEmpty(k) ==
    /\ k \in rooms
    /\ subs[k] = {}
    /\ ~(runpc = "add" /\ croom[runconn] = k)

C25_EmptyRoomRemoved ==
    \A k \in LiveKeys : LeftEmpty(k) ~> (k \notin rooms \/ fatal)

(***************************************************************************)
(* C25, amended: whenever a room is left with zero subscribers, by         *)
(* unregistration or because its last subscriber was torn down for a full  *)
(* outbox, the room is eventually removed from the hub unless a new        *)
(* subscriber joins it first (in a process that is still running); and a   *)
(* Publish for a chunk that has no room is a no-op: it returns without     *)
(* touching any outbox or room.                                            *)
(***************************************************************************)
C25_Step ==
    \A h \in Handlers :
        (hpc[h] = "publish" /\ hpc'[h] # "publish" /\ pkey[h] \notin rooms) =>
            /\ hpc'[h] = "idle"
            /\ UNCHANGED <<hubVars, connVars>>

C25_EmptyRoomRemovedOrJoined ==
    /\ \A k \in LiveKeys : LeftEmpty(k) ~> (k \notin rooms \/ subs[k] # {} \/ fatal)
    /\ [][C25_Step]_vars

\* The only subscriber of the room was torn down for a full outbox, its pumps
\* ended, Hub.Run handled its unregister and the room is gone.
C25_Witness ==
    \E c \in Conns :
        /\ closed[c] /\ cpc[c] = "gone" /\ wpc[c] = "done"
        /\ \A d \in Conns \ {c} : cpc[d] = "new"
        /\ runpc = "select"
        /\ rooms = {}
        /\ ~fatal

(***************************************************************************)
(* C26: a client that GETs the chunk snapshot with its X-Seq, then opens   *)
(* the subscription, then applies only deltas whose seq is greater than    *)
(* the last applied seq, and was never torn down, holds a local chunk      *)
(* equal to the server's chunk once all published deltas have been         *)
(* delivered: whenever no paint is in progress and its outbox is empty.    *)
(***************************************************************************)
\* Every request has been answered and every delta handed to c was written to
\* its socket.
AllDelivered(c) ==
    /\ \A h \in Handlers : hpc[h] = "idle"
    /\ runpc = "select"
    /\ send[c] = <<>>

C26_ClientConverges ==
    (/\ rpc["r1"] = "done"
     /\ cpc["c1"] = "open"
     /\ ~closed["c1"]
     /\ AllDelivered("c1"))
        => ClientChunk("c1", "r1").data = ChunkBody(bits[rchunk["r1"]])

\* The same for a client that was handed the delta of every paint of the
\* chunk: none fell between its snapshot and its subscription.
C26_NoDeltaMissed ==
    (/\ rpc["r1"] = "done"
     /\ cpc["c1"] = "open"
     /\ ~closed["c1"]
     /\ AllDelivered("c1")
     /\ \A e \in Range(hist[rchunk["r1"]]) :
            e.ret.seq > rresp["r1"].xseq =>
                \E d \in Range(frames["c1"]) : d.seq = e.ret.seq)
        => ClientChunk("c1", "r1").data = ChunkBody(bits[rchunk["r1"]])

(***************************************************************************)
(* C27: for every buffer, every o inside the buffer and every c in 0..15,  *)
(* SetNibble(buf, o, c) followed by GetNibble(buf, o) yields c, SetNibble  *)
(* returns the value the cell held before, every other cell (the one       *)
(* sharing byte o/2 included) and the buffer length are unchanged, and an  *)
(* even o uses the high nibble of byte o/2, an odd o the low nibble.       *)
(***************************************************************************)
\* the cells of a slice
CellsOf(data) == 0..(2 * data.len - 1)

\* cell o of the slice, read off its bytes
CellAt(data, o) ==
    IF o % 2 = 0 THEN data.b[o \div 2] \div 16 ELSE data.b[o \div 2] % 16

C27_Step ==
    (/\ call'.fn = "SetNibble"
     /\ <<buf, call>>' # <<buf, call>>
     /\ call'.args[1] \in CellsOf(buf)
     /\ call'.args[2] \in 0..MaxColor)
        => LET o == call'.args[1]
               c == call'.args[2]
           IN  /\ GetNibble(buf', o) = c
               /\ CellAt(buf', o) = c
               /\ call'.ret = <<CellAt(buf, o)>>
               /\ \A p \in CellsOf(buf) \ {o} : CellAt(buf', p) = CellAt(buf, p)
               /\ buf'.len = buf.len

\* what a GetNibble call inside the slice returned is the cell
C27_Get ==
    (call.fn = "GetNibble" /\ call.args[1] \in CellsOf(buf))
        => call.ret = <<CellAt(buf, call.args[1])>>

C27_SetThenGet == [](C27_Get) /\ [][C27_Step]_vars

\* SetNibble(buf, 1, 5) on a slice of 0x53 bytes returned 3 and left 0x55 in
\* byte 0: the high nibble, cell 0, kept its 5.
C27_Witness ==
    /\ call = [fn |-> "SetNibble", args |-> <<1, 5>>, ret |-> <<3>>]
    /\ buf.b[0] = 85
    /\ buf.b[1] = 83

(***************************************************************************)
(* C28: SetNibble called with an out-of-range offset (negative or beyond   *)
(* the buffer) or with a colour above 15, and GetNibble called with an     *)
(* out-of-range offset, return 0 and leave every byte of the buffer        *)
(* untouched.                                                              *)
(***************************************************************************)
C28_Step ==
    /\ (/\ call'.fn = "SetNibble"
        /\ <<buf, call>>' # <<buf, call>>
        /\ (call'.args[1] \notin CellsOf(buf) \/ call'.args[2] > MaxColor))
            => call'.ret = <<0>> /\ buf' = buf
    /\ (call'.fn = "GetNibble" /\ call'.args[1] \notin CellsOf(buf))
            => call'.ret = <<0>> /\ buf' = buf

C28_OutOfRangeIsNoOp == [][C28_Step]_vars

(***************************************************************************)
(* C29: for all signed tile coordinates (x, y), negative ones included,    *)
(* ChunkOf and OffsetOf recover the tile: with (cx, cy) = ChunkOf(x, y)    *)
(* and o = OffsetOf(x, y), o lies in 0..65535, x = cx*256 + (o mod 256)    *)
(* and y = cy*256 + (o div 256).                                           *)
(***************************************************************************)
C29_ProjectionRoundTrip ==
    call.fn = "ChunkOf/OffsetOf" =>
        LET x == call.args[1]
            y == call.args[2]
            cx == call.ret[1]
            cy == call.ret[2]
            o == call.ret[3]
        IN  /\ o \in 0..MaxOffset
            /\ x = cx * 256 + (o % 256)
            /\ y = cy * 256 + (o \div 256)

\* the tile (-1, -257) is the last cell of chunk (-1, -2)
C29_Witness ==
    call = [fn |-> "ChunkOf/OffsetOf", args |-> <<-1, -257>>, ret |-> <<-1, -2, MaxOffset>>]

(***************************************************************************)
(* C30: IsTileAllowed is false for every tile outside the mask's window    *)
(* and for every tile of a fresh mask; for a tile inside the window it     *)
(* returns the value last given to SetTile for that tile: a SetTile call   *)
(* gives its tile the value of the call and changes the allowance of no    *)
(* other tile, and an out-of-window SetTile changes nothing.               *)
(***************************************************************************)
\* the window [MinX..MaxX] x [MinY..MaxY] of the mask, and the tiles looked at:
\* the window and the ring around it
InWindow(m, t) == t[1] \in m.MinX..m.MaxX /\ t[2] \in m.MinY..m.MaxY
MaskTiles(m) == ((m.MinX - 1)..(m.MaxX + 1)) \X ((m.MinY - 1)..(m.MaxY + 1))
FreshMask ==
    mask = NewMask([MinX |-> mask.MinX, MaxX |-> mask.MaxX,
                    MinY |-> mask.MinY, MaxY |-> mask.MaxY])

C30_State ==
    /\ \A t \in MaskTiles(mask) :
        ~InWindow(mask, t) => ~MaskIsTileAllowed(mask, t[1], t[2])
    /\ FreshMask => \A t \in MaskTiles(mask) : ~MaskIsTileAllowed(mask, t[1], t[2])
    /\ call.fn = "IsTileAllowed"
        => call.ret = <<MaskIsTileAllowed(mask, call.args[1], call.args[2])>>

C30_Step ==
    /\ call'.fn = "SetTile" =>
        /\ \A t \in MaskTiles(mask) :
            MaskIsTileAllowed(mask', t[1], t[2]) =
                IF t = <<call'.args[1], call'.args[2]>> /\ InWindow(mask, t)
                    THEN call'.args[3]
                    ELSE MaskIsTileAllowed(mask, t[1], t[2])
        /\ ~InWindow(mask, <<call'.args[1], call'.args[2]>>) => mask' = mask
        /\ <<mask'.MinX, mask'.MaxX, mask'.MinY, mask'.MaxY>>
                = <<mask.MinX, mask.MaxX, mask.MinY, mask.MaxY>>
    /\ call'.fn = "IsTileAllowed" => mask' = mask

C30_MaskKeepsLastSetTile == [](C30_State) /\ [][C30_Step]_vars

\* the far corner and the end of the first row are allowed, the first tiles of
\* the first two rows are not, and the read of the far corner, whose bit lies
\* in the second byte, answers true
C30_Witness ==
    /\ call = [fn |-> "IsTileAllowed", args |-> <<mask.MaxX, mask.MaxY>>, ret |-> <<TRUE>>]
    /\ MaskIsTileAllowed(mask, mask.MaxX, mask.MinY)
    /\ ~MaskIsTileAllowed(mask, mask.MinX, mask.MinY + 1)
    /\ ~MaskIsTileAllowed(mask, mask.MinX, mask.MinY)
    /\ BitIndex(mask, mask.MaxX, mask.MaxY) \div 8 = 1

(***************************************************************************)
(* C31: once RegisterConn has returned for a chunk, every delta passed to  *)
(* Publish for that chunk after the return is enqueued in the connection's *)
(* outbox, unless the connection has unsubscribed or its outbox has        *)
(* overflowed: when such a Publish returns, its delta is in the outbox or  *)
(* already written to the client.                                          *)
(***************************************************************************)
C31_Step ==
    \A h \in Handlers :
        (hpc[h] \in {"publish", "range"} /\ hpc'[h] = "idle" /\ pkey[h] = croom["c1"]) =>
            \/ pdelta[h] \in Range(send'["c1"]) \cup Range(frames'["c1"])
            \/ closed'["c1"]
            \/ cpc'["c1"] # "open"

C31_NoPublishMissedAfterSubscribe == [][C31_Step]_vars

(***************************************************************************)
(* C32: Publish only reads a room's subscriber set, and the set is         *)
(* modified only by a holder of the room's exclusive lock: no step changes *)
(* the subscribers of a room while a goroutine holds the room's lock in    *)
(* read mode, so a modification never runs beside a read or beside another *)
(* modification.                                                           *)
(***************************************************************************)
C32_Step ==
    \A k \in RoomKeys :
        subs'[k] # subs[k] =>
            /\ rmu[k] = {}
            /\ \A h \in Handlers : hpc[h] = hpc'[h] \/ pkey[h] # k

C32_SubscribersChangeUnderExclusiveLock == [][C32_Step]_vars

(***************************************************************************)
(* C33: the hub never deadlocks: with Hub.Run running, under any           *)
(* interleaving of RegisterConn, unregistration, Publish, GetRoomCount and *)
(* GetSubscriberCount, every call eventually returns and every register or *)
(* unregister Hub.Run has received is eventually processed.                *)
(***************************************************************************)
C33_EveryCallReturns ==
    /\ \A h \in Handlers : (hpc[h] # "idle") ~> (hpc[h] = "idle")
    /\ (call.fn \in {"GetRoomCount", "GetSubscriberCount"} /\ call.ret = <<>>)
            ~> (call.ret # <<>>)
    /\ (runpc # "select") ~> (runpc = "select")

C35_Step ==
    \A c \in Conns :
        (wpc[c] = "run" /\ wpc'[c] = "done") =>
            \/ closed[c] /\ send[c] = <<>>
            \/ cpc[c] = "gone"

C35_WriteTaskTerminates ==
    /\ \A c \in Conns : (wpc[c] = "run" /\ (closed[c] \/ cpc[c] = "gone")) ~> (wpc[c] # "run")
    /\ [][C35_Step]_vars

\* the client closed the connection, its outbox was never closed, and both
\* pumps are over
C35_Witness ==
    \E c \in Conns : cpc[c] = "gone" /\ ~closed[c] /\ wpc[c] = "done" /\ frames[c] # <<>>

(***************************************************************************)
(* C36: any frame received from the client resets the subscriber's         *)
(* idle-read timer: a subscriber is torn down for idleness only when no    *)
(* frame of any kind arrived for the idle timeout (60 s), and a subscriber *)
(* with no inbound traffic for the idle timeout is unsubscribed.           *)
(***************************************************************************)
C36_Step ==
    \A c \in Conns :
        (cpc[c] = "open" /\ cpc'[c] = "gone") => idle[c].quiet >= IdleTimeout

C36_AnyFrameResetsIdleTimer ==
    /\ [][C36_Step]_vars
    /\ \A c \in Conns :
        (cpc[c] = "open" /\ idle[c].quiet >= IdleTimeout) ~> (cpc[c] = "gone")

(***************************************************************************)
(* C37: a connection handed to the hub through its register channel        *)
(* receives, as one frame equal to the delta, every delta later published  *)
(* with Publish(0, 0, ...), for one and for several connections created    *)
(* without a room id.                                                      *)
(***************************************************************************)
C37_RegisteredConnReceives ==
    \A n \in 1..(MaxReq + 1) :
        (\E p \in pubs : p.key = <<0, 0>> /\ p.delta.seq = n)
            ~> (\E i \in 1..Len(frames["c1"]) : frames["c1"][i].seq = n)

(***************************************************************************)
(* C38: for each IP, RateLimiter.Allow grants at most `limit` calls inside *)
(* any time window of length `window`; a call is denied exactly when       *)
(* `limit` granted requests lie inside the window that ends at the call    *)
(* (so it is granted again as soon as fewer remain), a denied call is not  *)
(* recorded, and a call for one IP changes nothing for another IP.         *)
(***************************************************************************)
\* the calls of ip granted at a time in (t - RateWindow, t]
GrantedInWindow(ip, t) ==
    Cardinality({i \in DOMAIN granted[ip] :
                    granted[ip][i] > t - RateWindow /\ granted[ip][i] <= t})

C38_State ==
    \A ip \in Clients : \A t \in 0..(now + RateWindow) : GrantedInWindow(ip, t) <= RateLimit

C38_Step ==
    call'.fn = "Allow" /\ now' = now =>
        LET ip == call'.args[1] IN
        /\ call'.ret = <<GrantedInWindow(ip, now) < RateLimit>>
        /\ call'.ret = <<FALSE>> => requests' = requests /\ granted' = granted
        /\ call'.ret = <<TRUE>> => granted'[ip] = Append(granted[ip], now)
        /\ \A other \in Clients \ {ip} :
            requests'[other] = requests[other] /\ granted'[other] = granted[other]

C38_AllowSlidingWindow == [](C38_State) /\ [][C38_Step]_vars

\* ip1 used up its window, was denied, and after the window had passed was
\* granted again, with ip2 at its limit all along
C38_Witness ==
    /\ call = [fn |-> "Allow", args |-> <<"ip1">>, ret |-> <<TRUE>>]
    /\ Len(granted["ip1"]) = RateLimit + 1
    /\ Len(requests["ip1"]) = 1
    /\ Len(requests["ip2"]) = RateLimit

(***************************************************************************)
(* C39: after SetCooldown(ip), CheckCooldown(ip, d) reports the identity   *)
(* as in cooldown until d has elapsed and as free afterwards; the first    *)
(* check after expiry removes the entry from the table, and the entries of *)
(* other identities are unaffected by either call.                         *)
(***************************************************************************)
\* milliseconds since the SetCooldown that made ip's entry
SinceSet(ip) == (now - cooldowns[ip].time) * 1000

C39_Step ==
    /\ (call'.fn = "SetCooldown" /\ now' = now) =>
        LET ip == call'.args[1] IN
        /\ cooldowns'[ip] = [exists |-> TRUE, time |-> now]
        /\ \A other \in Clients \ {ip} : cooldowns'[other] = cooldowns[other]
    /\ (call'.fn = "CheckCooldown" /\ now' = now) =>
        LET ip == call'.args[1]
            d == call'.args[2]
        IN  /\ call'.ret = <<cooldowns[ip].exists /\ SinceSet(ip) <= d>>
            /\ cooldowns'[ip].exists = (cooldowns[ip].exists /\ SinceSet(ip) <= d)
            /\ cooldowns'[ip].exists => cooldowns'[ip] = cooldowns[ip]
            /\ \A other \in Clients \ {ip} : cooldowns'[other] = cooldowns[other]

C39_CooldownUntilElapsed == [][C39_Step]_vars

\* ip1's cooldown of 100 ms was set a second ago: the check reports it free and
\* has removed its entry, and ip2's entry of the same age is still there
C39_Witness ==
    /\ call = [fn |-> "CheckCooldown", args |-> <<"ip1", 100>>, ret |-> <<FALSE>>]
    /\ now = 1
    /\ ~cooldowns["ip1"].exists
    /\ cooldowns["ip2"] = [exists |-> TRUE, time |-> 0]

(***************************************************************************)
(* C40: TurnstileClient.Verify returns an error, and never a success       *)
(* verdict, whenever the verifier answers with an HTTP error status, with  *)
(* a body that is not valid JSON, not within the client timeout, or after  *)
(* the caller's context is cancelled; otherwise it returns the verifier's  *)
(* success flag and error codes unchanged.                                 *)
(***************************************************************************)
C40_VerifyErrorsOnBadAnswer ==
    call.fn = "Verify" =>
        LET answer == call.args[1]
            got == call.ret[1]
        IN  IF \/ answer.status >= 400
               \/ ~answer.body.json
               \/ answer.arrives = "late"
               \/ answer.ctx = "cancelled"
                THEN got.err /\ ~got.Success
                ELSE /\ ~got.err
                     /\ got.Success = Unmarshal(answer.body).Success
                     /\ got.ErrorCodes = Unmarshal(answer.body).ErrorCodes

=============================================================================
